---- MODULE Spec2Model ----
(***************************************************************************)
(* Incoming synchronisation of the mobile replica: integrateRecord and the *)
(* functions it calls (src/src/sync/incomingSyncUtils.js), over a store    *)
(* that is a table of entities per type.                                   *)
(*                                                                         *)
(* Values.  A wire field is a string; a field the record does not carry is *)
(* javascript's undefined, here the string Undefined.  A relation holds    *)
(* the identifier of the entity it points to, or Null.  A number is a      *)
(* fraction <<n, d>> in lowest terms, NullNum is javascript's null number  *)
(* and NaN is <<0, 0>>.  A date is <<ISODate, overlay>>, NullDate is null. *)
(*                                                                         *)
(* The caller of the engine is OfflineMobileApp, whose scheduler starts a  *)
(* sync run at every tick (src/unnamed/part_000).                          *)
(***************************************************************************)
EXTENDS Integers, Sequences, FiniteSets, TLC

VARIABLES database, uuidCounter, clock, error, lastRecord, previousRecord, batch,
          isSyncing, syncError, syncsInFlight, syncsStarted, ticks,
          serialized, resolving

engineVars == <<database, uuidCounter, clock, error, lastRecord, previousRecord, batch>>

appVars == <<isSyncing, syncError, syncsInFlight, syncsStarted, ticks>>

resolverVars == <<serialized, resolving>>

vars == <<engineVars, appVars, resolverVars>>

(***************************************************************************)
(* Bounds of the model.                                                    *)
(***************************************************************************)
MaxSteps == 3

MaxTicks == 6

(***************************************************************************)
(* Values                                                                  *)
(***************************************************************************)
Undefined == "<undefined>"
Null == "<null>"
NullNum == <<>>
NullDate == <<>>
NaN == <<0, 0>>
NoError == ""
NoRecord == [none |-> TRUE]

Types ==
  {"Address", "Item", "ItemBatch", "ItemCategory", "ItemDepartment", "ItemStoreJoin",
   "MasterList", "MasterListItem", "MasterListNameJoin", "Name", "NameStoreJoin",
   "NumberSequence", "NumberToReuse", "Requisition", "RequisitionItem", "Stocktake",
   "StocktakeBatch", "Transaction", "TransactionBatch", "TransactionCategory", "User"}

\* record.field in javascript: undefined when the record does not carry the field
Get(record, field) == IF field \in DOMAIN record THEN record[field] ELSE Undefined

\* javascript truthiness of a string-or-undefined value
Truthy(s) == s # Undefined /\ s # ""

\* typeof s === 'string'
IsString(s) == s # Undefined

(***************************************************************************)
(* Numbers                                                                 *)
(***************************************************************************)
Abs(n) == IF n < 0 THEN -n ELSE n

RECURSIVE GCD(_, _)
GCD(a, b) == IF b = 0 THEN a ELSE GCD(b, a % b)

Num(n) == <<n, 1>>

Fraction(n, d) ==
  IF d = 0 THEN NaN
  ELSE LET g == GCD(Abs(n), Abs(d))
           s == IF d < 0 THEN -1 ELSE 1
       IN  <<(s * n) \div g, (s * d) \div g>>

\* ToNumber: null coerces to 0 in arithmetic
ToNumber(x) == IF x = NullNum THEN Num(0) ELSE x

\* the quantity taken as the pack count, not multiplied by the pack size
Times_IgnoresPackSize(x, y) == ToNumber(x)

Times(x, y) ==
  LET a == ToNumber(x)
      b == ToNumber(y)
  IN  IF a = NaN \/ b = NaN THEN NaN ELSE Fraction(a[1] * b[1], a[2] * b[2])

\* javascript's / on finite operands; the callers guard the divisor
Divide(x, y) ==
  LET a == ToNumber(x)
      b == ToNumber(y)
  IN  IF a = NaN \/ b = NaN \/ b[1] = 0 THEN NaN ELSE Fraction(a[1] * b[2], a[2] * b[1])

\* truthiness of a number-or-null value: null, 0 and NaN are falsy
\* truthiness that takes 0 for truthy
TruthyNum_ZeroIsTruthy(x) == x # NullNum /\ x # NaN

TruthyNum(x) == x # NullNum /\ x # NaN /\ x[1] # 0

Digits == "0123456789"

RECURSIVE DigitValue(_, _)
DigitValue(ch, i) ==
  IF i > Len(Digits) THEN -1
  ELSE IF SubSeq(Digits, i, i) = ch THEN i - 1 ELSE DigitValue(ch, i + 1)

\* parseFloat on the strings of the model: the longest prefix of decimal
\* digits, NaN when there is none
RECURSIVE ParseDigits(_, _, _, _)
ParseDigits(s, i, acc, seen) ==
  IF i > Len(s) THEN (IF seen THEN Num(acc) ELSE NaN)
  ELSE LET v == DigitValue(SubSeq(s, i, i), 1)
       IN  IF v < 0 THEN (IF seen THEN Num(acc) ELSE NaN)
           ELSE ParseDigits(s, i + 1, 10 * acc + v, TRUE)

parseFloat(s) == ParseDigits(s, 1, 0, FALSE)

parseNumber(numberString) ==
  IF ~Truthy(numberString) \/ Len(numberString) < 1 THEN NullNum
  ELSE parseFloat(numberString)

(***************************************************************************)
(* Booleans and dates                                                      *)
(***************************************************************************)
trueStrings == {"true", "True", "TRUE"}

parseBoolean(booleanString) == Truthy(booleanString) /\ booleanString \in trueStrings

ZeroDate == "0000-00-00T00:00:00"

parseDate(ISODate, ISOTime) ==
  IF ~Truthy(ISODate) \/ Len(ISODate) < 1 \/ ISODate = ZeroDate THEN NullDate
  ELSE IF Truthy(ISOTime) /\ Len(ISOTime) >= 6
       THEN <<ISODate, <<SubSeq(ISOTime, 1, 2), SubSeq(ISOTime, 3, 4), SubSeq(ISOTime, 5, 6)>> >>
       ELSE <<ISODate, <<>> >>

\* new Date(): the wall clock at the call
CurrentDate(now) == <<"now", <<now>> >>

(***************************************************************************)
(* Settings and translation tables (./settings, ./syncTranslators)         *)
(***************************************************************************)
THIS_STORE_ID == "store1"

OTHER_STORE_ID == "store2"

\* settings.get(THIS_STORE_ID)
settingsGet == THIS_STORE_ID

TranslateWith(table, code) ==
  IF code \in DOMAIN table THEN table[code] ELSE Undefined

\* SYNC_TYPES.translate(syncType, EXTERNAL_TO_INTERNAL)
SYNC_TYPES == ("I" :> "create") @@ ("U" :> "update") @@ ("D" :> "delete")

\* RECORD_TYPES.translate(recordType, EXTERNAL_TO_INTERNAL)
RECORD_TYPES ==
  ("item" :> "Item") @@ ("item_category" :> "ItemCategory")
  @@ ("item_department" :> "ItemDepartment") @@ ("item_line" :> "ItemBatch")
  @@ ("item_store_join" :> "ItemStoreJoin") @@ ("list_master" :> "MasterList")
  @@ ("list_master_line" :> "MasterListItem")
  @@ ("list_master_name_join" :> "MasterListNameJoin") @@ ("name" :> "Name")
  @@ ("name_store_join" :> "NameStoreJoin") @@ ("number" :> "NumberSequence")
  @@ ("number_reuse" :> "NumberToReuse") @@ ("requisition" :> "Requisition")
  @@ ("requisition_line" :> "RequisitionItem") @@ ("Stock_take" :> "Stocktake")
  @@ ("Stock_take_lines" :> "StocktakeBatch") @@ ("transact" :> "Transaction")
  @@ ("trans_line" :> "TransactionBatch")
  @@ ("transaction_category" :> "TransactionCategory")

NAME_TYPES == ("facility" :> "facility") @@ ("patient" :> "patient") @@ ("store" :> "store")

STATUSES == ("cn" :> "confirmed") @@ ("fn" :> "finalised") @@ ("sg" :> "suggested")

TRANSACTION_TYPES == ("ci" :> "customer_invoice") @@ ("si" :> "supplier_invoice")

REQUISITION_TYPES == ("im" :> "imprest") @@ ("sh" :> "forecast") @@ ("request" :> "request")

SequenceNames ==
  ("customer_invoice_number" :> "customer_invoice_serial_number")
  @@ ("stock_take_number" :> "stocktake_serial_number")

StoreSuffix(storeId) == "_for_store_" \o storeId

\* SEQUENCE_KEYS.translate(name, EXTERNAL_TO_INTERNAL, thisStoreId): the
\* internal key of a sequence of this store, null for any other name
SEQUENCE_KEYS_translate(name, thisStoreId) ==
  LET suffix == StoreSuffix(thisStoreId)
      cut == Len(name) - Len(suffix)
  IN  IF ~Truthy(name) \/ cut < 1 THEN Null
      ELSE IF SubSeq(name, cut + 1, Len(name)) # suffix THEN Null
      ELSE IF SubSeq(name, 1, cut) \in DOMAIN SequenceNames
           THEN SequenceNames[SubSeq(name, 1, cut)]
           ELSE Null

(***************************************************************************)
(* The store (./database).  A call works on a context c: the tables, the   *)
(* identifier generator, the wall clock of the call and the error thrown   *)
(* so far; once an error is thrown the rest of the call does nothing.      *)
(***************************************************************************)
Context(objects, uuid, now) ==
  [objects |-> objects, uuid |-> uuid, now |-> now, error |-> NoError]

Throw(c, message) == IF c.error # NoError THEN c ELSE [c EXCEPT !.error = message]

\* database.objects(type).filtered(`${field} == $0`, value)
filtered(rows, field, value) == SelectSeq(rows, LAMBDA e : Get(e, field) = value)

\* index of the first row with the given id, 0 when there is none
RECURSIVE IndexOfFrom(_, _, _)
IndexOfFrom(rows, id, i) ==
  IF i > Len(rows) THEN 0
  ELSE IF rows[i].id = id THEN i ELSE IndexOfFrom(rows, id, i + 1)

IndexOf(rows, id) == IndexOfFrom(rows, id, 1)

\* database.create(type, object)
create(c, type, object) ==
  IF c.error # NoError THEN c
  ELSE [c EXCEPT !.objects[type] = Append(@, object)]

\* database.update(type, object): the entity with the object's id gets every
\* field of the object, and is created when there is none
update(c, type, object) ==
  IF c.error # NoError THEN c
  ELSE LET i == IndexOf(c.objects[type], object.id)
       IN  IF i = 0 THEN [c EXCEPT !.objects[type] = Append(@, object)]
           ELSE [c EXCEPT !.objects[type][i] = object @@ @]

\* object.field = value on a live object of the store
setField(c, type, id, field, value) ==
  IF c.error # NoError THEN c
  ELSE IF id = Null THEN Throw(c, "TypeError")
  ELSE LET i == IndexOf(c.objects[type], id)
       IN  IF i = 0 THEN c
           ELSE [c EXCEPT !.objects[type][i] = (field :> value) @@ @]

\* parent.addBatch(dependent) and its like: the dependent joins the parent's
\* collection
addDependent(c, type, id, field, dependent) ==
  IF c.error # NoError THEN c
  ELSE IF id = Null THEN Throw(c, "TypeError")
  ELSE LET i == IndexOf(c.objects[type], id)
       IN  IF i = 0 THEN c
           ELSE [c EXCEPT !.objects[type][i] =
                   (field :> (IF field \in DOMAIN @ THEN @[field] ELSE {}) \cup {dependent}) @@ @]

\* database.save(type, object): the object is live, its fields are stored
save(c, type, id) == c

\* the collections of dependents: <<parent type, field, dependent type>>
Collections ==
  {<<"Item", "batches", "ItemBatch">>,
   <<"ItemBatch", "transactionBatches", "TransactionBatch">>,
   <<"MasterList", "items", "MasterListItem">>,
   <<"Name", "transactions", "Transaction">>,
   <<"NumberSequence", "numbersToReuse", "NumberToReuse">>,
   <<"Requisition", "items", "RequisitionItem">>,
   <<"Stocktake", "batches", "StocktakeBatch">>,
   <<"Transaction", "batches", "TransactionBatch">>}

RemoveAt(rows, i) == SubSeq(rows, 1, i - 1) \o SubSeq(rows, i + 1, Len(rows))

Detach(e, fields, id) ==
  [f \in DOMAIN e |-> IF f \in fields THEN e[f] \ {id} ELSE e[f]]

RECURSIVE DetachAll(_, _, _)
DetachAll(rows, fields, id) ==
  IF rows = <<>> THEN <<>>
  ELSE <<Detach(Head(rows), fields, id)>> \o DetachAll(Tail(rows), fields, id)

\* database.delete(type, object): the entity leaves its table and every
\* collection that held it
delete(c, type, id) ==
  IF c.error # NoError THEN c
  ELSE IF id = Null THEN Throw(c, "TypeError")
  ELSE LET i == IndexOf(c.objects[type], id)
           removed == IF i = 0 THEN c.objects
                      ELSE [c.objects EXCEPT ![type] = RemoveAt(@, i)]
           FieldsOf(t) == {col[2] : col \in {k \in Collections : k[1] = t /\ k[3] = type}}
       IN  [c EXCEPT !.objects =
              [t \in DOMAIN removed |-> DetachAll(removed[t], FieldsOf(t), id)]]

\* generateUUID()
generateUUID(c) == "uuid-" \o ToString(c.uuid + 1)

(***************************************************************************)
(* Reference Resolver                                                      *)
(***************************************************************************)
placeholderString == "placeholder"

placeholderNumber == Num(0)

PlaceholderTypes ==
  {"Address", "Item", "ItemCategory", "ItemDepartment", "ItemBatch", "MasterList", "Name",
   "NumberSequence", "Stocktake", "Transaction", "TransactionCategory", "User"}

\* generatePlaceholder(type, primaryKey): the fields of the placeholder; the
\* caller has checked that the type has a template
PlaceholderFields(type, primaryKey, uuid, placeholderDate) ==
  CASE type = "Address" -> [id |-> primaryKey]
    [] type = "Item" ->
         [id |-> primaryKey, code |-> placeholderString, name |-> placeholderString,
          defaultPackSize |-> placeholderNumber]
    [] type = "ItemCategory" -> [id |-> primaryKey, name |-> placeholderString]
    [] type = "ItemDepartment" -> [id |-> primaryKey, name |-> placeholderString]
    [] type = "ItemBatch" ->
         [id |-> primaryKey, packSize |-> placeholderNumber,
          numberOfPacks |-> placeholderNumber, expiryDate |-> placeholderDate,
          batch |-> placeholderString, costPrice |-> placeholderNumber,
          sellPrice |-> placeholderNumber]
    [] type = "MasterList" -> [id |-> primaryKey, name |-> placeholderString]
    [] type = "Name" ->
         [id |-> primaryKey, name |-> placeholderString, code |-> placeholderString,
          type |-> placeholderString, isCustomer |-> FALSE, isSupplier |-> FALSE,
          isManufacturer |-> FALSE]
    [] type = "NumberSequence" -> [id |-> uuid, sequenceKey |-> primaryKey]
    [] type = "Stocktake" ->
         [id |-> primaryKey, name |-> placeholderString, createdDate |-> placeholderDate,
          status |-> placeholderString, serialNumber |-> placeholderString]
    [] type = "Transaction" ->
         [id |-> primaryKey, serialNumber |-> placeholderString,
          comment |-> placeholderString, entryDate |-> placeholderDate,
          type |-> placeholderString, status |-> placeholderString,
          theirRef |-> placeholderString]
    [] type = "TransactionCategory" ->
         [id |-> primaryKey, name |-> placeholderString, code |-> placeholderString,
          type |-> placeholderString]
    [] type = "User" ->
         [id |-> primaryKey, username |-> placeholderString,
          passwordHash |-> placeholderString]

\* generatePlaceholder: the context after the call (an error for a type
\* without a template, an identifier taken for a NumberSequence) and the
\* placeholder
generatePlaceholder(c, type, primaryKey) ==
  IF type \notin PlaceholderTypes
  THEN [c |-> Throw(c, "Unsupported database object type."), placeholder |-> Null]
  ELSE [c |-> IF type = "NumberSequence" THEN [c EXCEPT !.uuid = @ + 1] ELSE c,
        placeholder |-> PlaceholderFields(type, primaryKey, generateUUID(c),
                                          CurrentDate(c.now))]

\* getObject looking the key up in 'id' whatever primaryKeyField says
\* getObject without the test of the primary key (line 474)
getObject_NoEmptyKeyCheck(c, type, primaryKey, primaryKeyField) ==
  IF c.error # NoError THEN [c |-> c, obj |-> Null]
  ELSE LET results == filtered(c.objects[type], primaryKeyField, primaryKey)
       IN  IF Len(results) > 0 THEN [c |-> c, obj |-> results[1].id]
           ELSE LET made == generatePlaceholder(c, type, primaryKey)
                IN  IF made.c.error # NoError THEN [c |-> made.c, obj |-> Null]
                    ELSE [c |-> create(made.c, type, made.placeholder),
                          obj |-> made.placeholder.id]

getObject_IgnoresKeyField(c, type, primaryKey, primaryKeyField) ==
  IF c.error # NoError THEN [c |-> c, obj |-> Null]
  ELSE IF ~Truthy(primaryKey) \/ Len(primaryKey) < 1 THEN [c |-> c, obj |-> Null]
  ELSE LET results == filtered(c.objects[type], "id", primaryKey)
       IN  IF Len(results) > 0 THEN [c |-> c, obj |-> results[1].id]
           ELSE LET g == generatePlaceholder(c, type, primaryKey)
                IN  IF g.c.error # NoError THEN [c |-> g.c, obj |-> Null]
                    ELSE [c |-> create(g.c, type, g.placeholder), obj |-> g.placeholder.id]

\* getObject returning the placeholder without storing it
getObject_NoCreate(c, type, primaryKey, primaryKeyField) ==
  IF c.error # NoError THEN [c |-> c, obj |-> Null]
  ELSE IF ~Truthy(primaryKey) \/ Len(primaryKey) < 1 THEN [c |-> c, obj |-> Null]
  ELSE LET results == filtered(c.objects[type], primaryKeyField, primaryKey)
       IN  IF Len(results) > 0 THEN [c |-> c, obj |-> results[1].id]
           ELSE LET g == generatePlaceholder(c, type, primaryKey)
                IN  IF g.c.error # NoError THEN [c |-> g.c, obj |-> Null]
                    ELSE [c |-> g.c, obj |-> g.placeholder.id]

\* getObject taking a single match for no match (results.length > 1)
getObject_OffByOne(c, type, primaryKey, primaryKeyField) ==
  IF c.error # NoError THEN [c |-> c, obj |-> Null]
  ELSE IF ~Truthy(primaryKey) \/ Len(primaryKey) < 1 THEN [c |-> c, obj |-> Null]
  ELSE LET results == filtered(c.objects[type], primaryKeyField, primaryKey)
       IN  IF Len(results) > 1 THEN [c |-> c, obj |-> results[1].id]
           ELSE LET g == generatePlaceholder(c, type, primaryKey)
                IN  IF g.c.error # NoError THEN [c |-> g.c, obj |-> Null]
                    ELSE [c |-> create(g.c, type, g.placeholder), obj |-> g.placeholder.id]

\* getObject(database, type, primaryKey, primaryKeyField): the context after
\* the call and the identifier of the object returned (Null for null)
getObject(c, type, primaryKey, primaryKeyField) ==
  IF c.error # NoError THEN [c |-> c, obj |-> Null]
  ELSE IF ~Truthy(primaryKey) \/ primaryKey = Null \/ Len(primaryKey) < 1
       THEN [c |-> c, obj |-> Null]
  ELSE LET results == filtered(c.objects[type], primaryKeyField, primaryKey)
       IN  IF Len(results) > 0 THEN [c |-> c, obj |-> results[1].id]
           ELSE LET g == generatePlaceholder(c, type, primaryKey)
                IN  IF g.c.error # NoError THEN [c |-> g.c, obj |-> Null]
                    ELSE [c |-> create(g.c, type, g.placeholder), obj |-> g.placeholder.id]

(***************************************************************************)
(* Address Deduplicator                                                    *)
(***************************************************************************)
AddressFields == <<"line1", "line2", "line3", "line4", "zipCode">>

\* the chain of filtered() calls, one per supplied field
RECURSIVE FilterSupplied(_, _, _)
FilterSupplied(results, supplied, i) ==
  IF i > Len(AddressFields) THEN results
  ELSE FilterSupplied(IF IsString(supplied[i])
                      THEN filtered(results, AddressFields[i], supplied[i])
                      ELSE results,
                      supplied, i + 1)

\* the address object built from the supplied fields
\* the address object with every field set, the fields not supplied empty
NewAddress_EveryField(id, supplied) ==
  [f \in {"id"} \cup {AddressFields[i] : i \in 1..Len(AddressFields)} |->
     IF f = "id" THEN id
     ELSE LET value == supplied[CHOOSE i \in 1..Len(AddressFields) : AddressFields[i] = f]
          IN  IF IsString(value) THEN value ELSE ""]

NewAddress(id, supplied) ==
  LET present == {i \in 1..Len(AddressFields) : IsString(supplied[i])}
  IN  [f \in {"id"} \cup {AddressFields[i] : i \in present} |->
         IF f = "id" THEN id
         ELSE supplied[CHOOSE i \in present : AddressFields[i] = f]]

\* getOrCreateAddress that does not filter on the zip code
getOrCreateAddress_IgnoresZip(c, line1, line2, line3, line4, zipCode) ==
  LET supplied == <<line1, line2, line3, line4, zipCode>>
      results == FilterSupplied(c.objects["Address"], <<line1, line2, line3, line4, Undefined>>, 1)
  IN  IF c.error # NoError THEN [c |-> c, obj |-> Null]
      ELSE IF Len(results) > 0 THEN [c |-> c, obj |-> results[1].id]
      ELSE LET address == NewAddress(generateUUID(c), supplied)
           IN  [c |-> create([c EXCEPT !.uuid = @ + 1], "Address", address),
                obj |-> address.id]

\* getOrCreateAddress that creates without looking for a stored Address
getOrCreateAddress_AlwaysCreates(c, line1, line2, line3, line4, zipCode) ==
  LET supplied == <<line1, line2, line3, line4, zipCode>>
  IN  IF c.error # NoError THEN [c |-> c, obj |-> Null]
      ELSE LET address == NewAddress(generateUUID(c), supplied)
           IN  [c |-> create([c EXCEPT !.uuid = @ + 1], "Address", address),
                obj |-> address.id]

getOrCreateAddress(c, line1, line2, line3, line4, zipCode) ==
  LET supplied == <<line1, line2, line3, line4, zipCode>>
      results == FilterSupplied(c.objects["Address"], supplied, 1)
  IN  IF c.error # NoError THEN [c |-> c, obj |-> Null]
      ELSE IF Len(results) > 0 THEN [c |-> c, obj |-> results[1].id]
      ELSE LET address == NewAddress(generateUUID(c), supplied)
           IN  [c |-> create([c EXCEPT !.uuid = @ + 1], "Address", address),
                obj |-> address.id]

(***************************************************************************)
(* Record Sanity Checker                                                   *)
(***************************************************************************)
AllTruthy(record, fields) == \A f \in fields : Truthy(Get(record, f))

\* the switch of sanityCheckIncomingRecord: the fields each type needs
HasRequiredFields(recordType, record) ==
       CASE recordType = "Item" ->
              AllTruthy(record, {"code", "item_name", "default_pack_size"})
         [] recordType = "ItemCategory" -> IsString(Get(record, "Description"))
         [] recordType = "ItemDepartment" -> IsString(Get(record, "department"))
         [] recordType = "ItemBatch" ->
              AllTruthy(record, {"item_ID", "pack_size", "quantity", "batch",
                                 "expiry_date", "cost_price", "sell_price"})
         [] recordType = "ItemStoreJoin" -> AllTruthy(record, {"item_ID", "store_ID"})
         [] recordType = "MasterListNameJoin" ->
              AllTruthy(record, {"name_ID", "list_master_ID"})
         [] recordType = "MasterList" -> IsString(Get(record, "description"))
         [] recordType = "MasterListItem" -> AllTruthy(record, {"item_ID"})
         [] recordType = "Name" ->
              AllTruthy(record, {"name", "code", "type", "customer", "supplier",
                                 "manufacturer"})
         [] recordType = "NameStoreJoin" -> AllTruthy(record, {"name_ID", "store_ID"})
         [] recordType = "NumberSequence" -> AllTruthy(record, {"name", "value"})
         [] recordType = "NumberToReuse" -> AllTruthy(record, {"name", "number_to_use"})
         [] recordType = "Requisition" ->
              AllTruthy(record, {"status", "date_entered", "type", "daysToSupply",
                                 "serial_number"})
         [] recordType = "RequisitionItem" ->
              AllTruthy(record, {"requisition_ID", "item_ID", "stock_on_hand",
                                 "Cust_stock_order"})
         [] recordType = "Stocktake" ->
              AllTruthy(record, {"Description", "stock_take_created_date", "status",
                                 "serial_number"})
         [] recordType = "StocktakeBatch" ->
              AllTruthy(record, {"stock_take_ID", "item_line_ID", "snapshot_qty",
                                 "snapshot_packsize", "expiry", "Batch", "cost_price",
                                 "sell_price"})
         [] recordType = "Transaction" ->
              AllTruthy(record, {"invoice_num", "name_ID", "entry_date", "type", "status"})
         [] recordType = "TransactionCategory" ->
              AllTruthy(record, {"category", "code", "type"})
         [] recordType = "TransactionBatch" ->
              AllTruthy(record, {"item_ID", "item_name", "item_line_ID", "batch",
                                 "expiry_date", "pack_size", "quantity", "transaction_ID",
                                 "cost_price", "sell_price"})
         [] OTHER -> FALSE

\* the sanity check without its first line: a record needs no ID
sanityCheckIncomingRecord_NoIdCheck(recordType, record) ==
  HasRequiredFields(recordType, record)

\* a sanity check whose switch accepts by default
sanityCheckIncomingRecord_DefaultAccepts(recordType, record) ==
  IF ~Truthy(Get(record, "ID")) \/ Len(Get(record, "ID")) < 1 THEN FALSE
  ELSE IF recordType \in Types \ {"Address", "User"} THEN HasRequiredFields(recordType, record)
  ELSE TRUE

sanityCheckIncomingRecord(recordType, record) ==
  IF ~Truthy(Get(record, "ID")) \/ Len(Get(record, "ID")) < 1 THEN FALSE
  ELSE HasRequiredFields(recordType, record)

(***************************************************************************)
(* Record Integration Dispatcher: one operator per case of the switch of   *)
(* createOrUpdateRecord, each from a context to the context after the case *)
(***************************************************************************)
\* the live object with the given id
Entity(c, type, id) == c.objects[type][IndexOf(c.objects[type], id)]

\* price / packSize behind the guard on packSize
\* price / packSize without the guard on packSize
PerUnit_NoGuard(price, packSize) == Divide(price, packSize)

PerUnit(price, packSize) == IF TruthyNum(packSize) THEN Divide(price, packSize) ELSE Num(0)

\* case 'Item' with an internal record that carries an empty collection of
\* batches
createOrUpdate_Item_NoBatches(c, record) ==
  LET packSize == parseNumber(Get(record, "default_pack_size"))
      category == getObject(c, "ItemCategory", Get(record, "category_ID"), "id")
      department == getObject(category.c, "ItemDepartment", Get(record, "department_ID"), "id")
      internalRecord ==
        [id |-> Get(record, "ID"),
         category |-> category.obj,
         code |-> Get(record, "code"),
         defaultPackSize |-> Num(1),
         defaultPrice |-> PerUnit(parseNumber(Get(record, "buy_price")), packSize),
         department |-> department.obj,
         description |-> Get(record, "description"),
         name |-> Get(record, "item_name"),
         batches |-> {}]
  IN  update(department.c, "Item", internalRecord)

createOrUpdate_Item(c, record) ==
  LET packSize == parseNumber(Get(record, "default_pack_size"))
      category == getObject(c, "ItemCategory", Get(record, "category_ID"), "id")
      department == getObject(category.c, "ItemDepartment", Get(record, "department_ID"), "id")
      internalRecord ==
        [id |-> Get(record, "ID"),
         category |-> category.obj,
         code |-> Get(record, "code"),
         defaultPackSize |-> Num(1),
         defaultPrice |-> PerUnit(parseNumber(Get(record, "buy_price")), packSize),
         department |-> department.obj,
         description |-> Get(record, "description"),
         name |-> Get(record, "item_name")]
  IN  update(department.c, "Item", internalRecord)

createOrUpdate_ItemCategory(c, record) ==
  update(c, "ItemCategory", [id |-> Get(record, "ID"), name |-> Get(record, "Description")])

createOrUpdate_ItemDepartment(c, record) ==
  update(c, "ItemDepartment", [id |-> Get(record, "ID"), name |-> Get(record, "department")])

createOrUpdate_ItemBatch(c, record) ==
  LET item == getObject(c, "Item", Get(record, "item_ID"), "id")
      packSize == parseNumber(Get(record, "pack_size"))
      supplier == getObject(item.c, "Name", Get(record, "name_ID"), "id")
      internalRecord ==
        [id |-> Get(record, "ID"),
         item |-> item.obj,
         packSize |-> Num(1),
         numberOfPacks |-> Times(parseNumber(Get(record, "quantity")), packSize),
         expiryDate |-> parseDate(Get(record, "expiry_date"), Undefined),
         batch |-> Get(record, "batch"),
         costPrice |-> PerUnit(parseNumber(Get(record, "sell_price")), packSize),
         sellPrice |-> PerUnit(parseNumber(Get(record, "sell_price")), packSize),
         supplier |-> supplier.obj]
      updated == update(supplier.c, "ItemBatch", internalRecord)
  IN  save(addDependent(updated, "Item", item.obj, "batches", Get(record, "ID")), "Item", item.obj)

\* case 'ItemStoreJoin' without the test of joinsThisStore (line 120)
createOrUpdate_ItemStoreJoin_AnyStore(c, record) ==
  LET joinsThisStore == Get(record, "store_ID") = settingsGet
      internalRecord ==
        [id |-> Get(record, "ID"), itemId |-> Get(record, "item_ID"),
         joinsThisStore |-> joinsThisStore]
      updated == update(c, "ItemStoreJoin", internalRecord)
      item == getObject(updated, "Item", Get(record, "item_ID"), "id")
  IN  save(setField(item.c, "Item", item.obj, "isVisible",
                    ~parseBoolean(Get(record, "inactive"))), "Item", item.obj)

createOrUpdate_ItemStoreJoin(c, record) ==
  LET joinsThisStore == Get(record, "store_ID") = settingsGet
      internalRecord ==
        [id |-> Get(record, "ID"), itemId |-> Get(record, "item_ID"),
         joinsThisStore |-> joinsThisStore]
      updated == update(c, "ItemStoreJoin", internalRecord)
      item == getObject(updated, "Item", Get(record, "item_ID"), "id")
  IN  IF joinsThisStore
      THEN save(setField(item.c, "Item", item.obj, "isVisible",
                         ~parseBoolean(Get(record, "inactive"))), "Item", item.obj)
      ELSE updated

createOrUpdate_MasterListNameJoin(c, record) ==
  LET name == getObject(c, "Name", Get(record, "name_ID"), "id")
      masterList == getObject(name.c, "MasterList", Get(record, "list_master_ID"), "id")
      saved == save(setField(masterList.c, "Name", name.obj, "masterList", masterList.obj),
                    "Name", name.obj)
      internalRecord ==
        [id |-> Get(record, "ID"), name |-> name.obj, masterList |-> masterList.obj]
  IN  update(saved, "MasterListNameJoin", internalRecord)

createOrUpdate_MasterList(c, record) ==
  update(c, "MasterList",
         [id |-> Get(record, "ID"), name |-> Get(record, "description"), note |-> Get(record, "note")])

createOrUpdate_MasterListItem(c, record) ==
  LET masterList == getObject(c, "MasterList", Get(record, "item_master_ID"), "id")
      item == getObject(masterList.c, "Item", Get(record, "item_ID"), "id")
      internalRecord ==
        [id |-> Get(record, "ID"),
         item |-> item.obj,
         imprestQuantity |-> parseNumber(Get(record, "imprest_quan")),
         masterList |-> masterList.obj]
      updated == update(item.c, "MasterListItem", internalRecord)
  IN  addDependent(updated, "MasterList", masterList.obj, "items", Get(record, "ID"))

createOrUpdate_Name(c, record) ==
  LET billingAddress ==
        getOrCreateAddress(c, Get(record, "bill_address1"), Get(record, "bill_address2"),
                           Get(record, "bill_address3"), Get(record, "bill_address4"),
                           Get(record, "bill_postal_zip_code"))
      internalRecord ==
        [id |-> Get(record, "ID"),
         name |-> Get(record, "name"),
         code |-> Get(record, "code"),
         phoneNumber |-> Get(record, "phone"),
         billingAddress |-> billingAddress.obj,
         emailAddress |-> Get(record, "email"),
         type |-> TranslateWith(NAME_TYPES, Get(record, "type")),
         isCustomer |-> parseBoolean(Get(record, "customer")),
         isSupplier |-> parseBoolean(Get(record, "supplier")),
         isManufacturer |-> parseBoolean(Get(record, "manufacturer")),
         supplyingStoreId |-> Get(record, "supplying_store_id")]
  IN  update(billingAddress.c, "Name", internalRecord)

createOrUpdate_NameStoreJoin(c, record) ==
  LET joinsThisStore == Get(record, "store_ID") = settingsGet
      internalRecord ==
        [id |-> Get(record, "ID"), nameId |-> Get(record, "name_ID"),
         joinsThisStore |-> joinsThisStore]
      updated == update(c, "NameStoreJoin", internalRecord)
      name == getObject(updated, "Name", Get(record, "name_ID"), "id")
  IN  IF joinsThisStore
      THEN save(setField(name.c, "Name", name.obj, "isVisible",
                         ~parseBoolean(Get(record, "inactive"))), "Name", name.obj)
      ELSE updated

\* case 'NumberSequence' without the test of the translated key (line 201)
createOrUpdate_NumberSequence_NoStoreCheck(c, record) ==
  update(c, "NumberSequence",
         [id |-> Get(record, "ID"),
          sequenceKey |-> SEQUENCE_KEYS_translate(Get(record, "name"), settingsGet),
          highestNumberUsed |-> parseNumber(Get(record, "value"))])

createOrUpdate_NumberSequence(c, record) ==
  LET thisStoreId == settingsGet
      sequenceKey == SEQUENCE_KEYS_translate(Get(record, "name"), thisStoreId)
      internalRecord ==
        [id |-> Get(record, "ID"), sequenceKey |-> sequenceKey,
         highestNumberUsed |-> parseNumber(Get(record, "value"))]
  IN  IF sequenceKey = Null THEN c
      ELSE update(c, "NumberSequence", internalRecord)

createOrUpdate_NumberToReuse(c, record) ==
  LET thisStoreId == settingsGet
      sequenceKey == SEQUENCE_KEYS_translate(Get(record, "name"), thisStoreId)
      numberSequence == getObject(c, "NumberSequence", sequenceKey, "sequenceKey")
      internalRecord ==
        [id |-> Get(record, "ID"), numberSequence |-> numberSequence.obj,
         number |-> parseNumber(Get(record, "number_to_use"))]
      updated == update(numberSequence.c, "NumberToReuse", internalRecord)
  IN  IF sequenceKey = Null THEN c
      ELSE addDependent(updated, "NumberSequence", numberSequence.obj, "numbersToReuse",
                        Get(record, "ID"))

createOrUpdate_Requisition(c, record) ==
  LET user == getObject(c, "User", Get(record, "user_ID"), "id")
      internalRecord ==
        [id |-> Get(record, "ID"),
         status |-> TranslateWith(STATUSES, Get(record, "status")),
         entryDate |-> parseDate(Get(record, "date_entered"), Undefined),
         daysToSupply |-> parseNumber(Get(record, "daysToSupply")),
         serialNumber |-> Get(record, "serial_number"),
         user |-> user.obj,
         type |-> TranslateWith(REQUISITION_TYPES, Get(record, "type"))]
  IN  update(user.c, "Requisition", internalRecord)

createOrUpdate_RequisitionItem(c, record) ==
  LET requisition == getObject(c, "Requisition", Get(record, "requisition_ID"), "id")
      live == Entity(requisition.c, "Requisition", requisition.obj)
      daysToSupply == IF "daysToSupply" \in DOMAIN live THEN live.daysToSupply ELSE NullNum
      dailyUsage == IF TruthyNum(daysToSupply)
                    THEN Divide(parseNumber(Get(record, "Cust_stock_order")), daysToSupply)
                    ELSE Num(0)
      item == getObject(requisition.c, "Item", Get(record, "item_ID"), "id")
      internalRecord ==
        [id |-> Get(record, "ID"),
         requisition |-> requisition.obj,
         item |-> item.obj,
         stockOnHand |-> parseNumber(Get(record, "stock_on_hand")),
         dailyUsage |-> dailyUsage,
         imprestQuantity |-> parseNumber(Get(record, "imprest_or_prev_quantity")),
         requiredQuantity |-> parseNumber(Get(record, "actualQuan")),
         comment |-> Get(record, "comment"),
         sortIndex |-> parseNumber(Get(record, "line_number"))]
      updated == update(item.c, "RequisitionItem", internalRecord)
  IN  IF requisition.c.error # NoError THEN requisition.c
      ELSE save(addDependent(updated, "Requisition", requisition.obj, "items", Get(record, "ID")),
                "Requisition", requisition.obj)

createOrUpdate_Stocktake(c, record) ==
  LET createdBy == getObject(c, "User", Get(record, "created_by_ID"), "id")
      finalisedBy == getObject(createdBy.c, "User", Get(record, "finalised_by_ID"), "id")
      additions ==
        getObject(finalisedBy.c, "Transaction", Get(record, "invad_additions_ID"), "id")
      reductions ==
        getObject(additions.c, "Transaction", Get(record, "invad_reductions_ID"), "id")
      internalRecord ==
        [id |-> Get(record, "ID"),
         name |-> Get(record, "Description"),
         createdDate |-> parseDate(Get(record, "stock_take_created_date"), Undefined),
         stocktakeDate |-> parseDate(Get(record, "stock_take_date"),
                                     Get(record, "stock_take_time")),
         status |-> TranslateWith(STATUSES, Get(record, "status")),
         createdBy |-> createdBy.obj,
         finalisedBy |-> finalisedBy.obj,
         comment |-> Get(record, "comment"),
         serialNumber |-> Get(record, "serial_number"),
         additions |-> additions.obj,
         reductions |-> reductions.obj]
  IN  update(reductions.c, "Stocktake", internalRecord)

createOrUpdate_StocktakeBatch(c, record) ==
  LET stocktake == getObject(c, "Stocktake", Get(record, "stock_take_ID"), "id")
      packSize == parseNumber(Get(record, "snapshot_packsize"))
      numPacks == Times(parseNumber(Get(record, "snapshot_qty")), packSize)
      itemBatch == getObject(stocktake.c, "ItemBatch", Get(record, "item_line_ID"), "id")
      internalRecord ==
        [id |-> Get(record, "ID"),
         stocktake |-> stocktake.obj,
         itemBatch |-> itemBatch.obj,
         snapshotNumberOfPacks |-> numPacks,
         packSize |-> Num(1),
         expiry |-> parseDate(Get(record, "expiry"), Undefined),
         batch |-> Get(record, "Batch"),
         costPrice |-> PerUnit(parseNumber(Get(record, "cost_price")), packSize),
         sellPrice |-> PerUnit(parseNumber(Get(record, "sell_price")), packSize),
         countedNumberOfPacks |-> numPacks,
         sortIndex |-> parseNumber(Get(record, "line_number"))]
      updated == update(itemBatch.c, "StocktakeBatch", internalRecord)
  IN  save(addDependent(updated, "Stocktake", stocktake.obj, "batches", Get(record, "ID")),
           "Stocktake", stocktake.obj)

createOrUpdate_Transaction(c, record) ==
  LET otherParty == getObject(c, "Name", Get(record, "name_ID"), "id")
      internalRecord ==
        [id |-> Get(record, "ID"),
         serialNumber |-> Get(record, "invoice_num"),
         comment |-> Get(record, "comment"),
         entryDate |-> parseDate(Get(record, "entry_date"), Undefined),
         type |-> TranslateWith(TRANSACTION_TYPES, Get(record, "type")),
         status |-> TranslateWith(STATUSES, Get(record, "status")),
         confirmDate |-> parseDate(Get(record, "confirm_date"), Undefined),
         theirRef |-> Get(record, "their_ref")]
      transaction == Get(record, "ID")
      updated == update(otherParty.c, "Transaction", internalRecord)
      c1 == setField(updated, "Transaction", transaction, "otherParty", otherParty.obj)
      enteredBy == getObject(c1, "User", Get(record, "user_ID"), "id")
      c2 == setField(enteredBy.c, "Transaction", transaction, "enteredBy", enteredBy.obj)
      category == getObject(c2, "TransactionCategory", Get(record, "category_ID"), "id")
      c3 == setField(category.c, "Transaction", transaction, "category", category.obj)
  IN  save(addDependent(c3, "Name", otherParty.obj, "transactions", transaction),
           "Name", otherParty.obj)

createOrUpdate_TransactionCategory(c, record) ==
  update(c, "TransactionCategory",
         [id |-> Get(record, "ID"),
          name |-> Get(record, "category"),
          code |-> Get(record, "code"),
          type |-> TranslateWith(TRANSACTION_TYPES, Get(record, "type"))])

\* case 'TransactionBatch' without itemBatch.item = item and item.addBatch
\* (lines 331-332)
createOrUpdate_TransactionBatch_NoRelink(c, record) ==
  LET transaction == getObject(c, "Transaction", Get(record, "transaction_ID"), "id")
      itemBatch == getObject(transaction.c, "ItemBatch", Get(record, "item_line_ID"), "id")
      item == getObject(itemBatch.c, "Item", Get(record, "item_ID"), "id")
      packSize == parseNumber(Get(record, "pack_size"))
      internalRecord ==
        [id |-> Get(record, "ID"),
         itemId |-> Get(record, "item_ID"),
         itemName |-> Get(record, "item_name"),
         itemBatch |-> itemBatch.obj,
         packSize |-> Num(1),
         numberOfPacks |-> Times(parseNumber(Get(record, "quantity")), packSize),
         numberOfPacksSent |-> Times(parseNumber(Get(record, "quantity")), packSize),
         transaction |-> transaction.obj,
         note |-> Get(record, "note"),
         costPrice |-> PerUnit(parseNumber(Get(record, "cost_price")), packSize),
         sellPrice |-> PerUnit(parseNumber(Get(record, "sell_price")), packSize),
         sortIndex |-> parseNumber(Get(record, "line_number")),
         expiryDate |-> parseDate(Get(record, "expiry_date"), Undefined),
         batch |-> Get(record, "batch")]
      c3 == update(item.c, "TransactionBatch", internalRecord)
      c4 == save(addDependent(c3, "Transaction", transaction.obj, "batches", Get(record, "ID")),
                 "Transaction", transaction.obj)
  IN  save(addDependent(c4, "ItemBatch", itemBatch.obj, "transactionBatches", Get(record, "ID")),
           "ItemBatch", itemBatch.obj)

createOrUpdate_TransactionBatch(c, record) ==
  LET transaction == getObject(c, "Transaction", Get(record, "transaction_ID"), "id")
      itemBatch == getObject(transaction.c, "ItemBatch", Get(record, "item_line_ID"), "id")
      item == getObject(itemBatch.c, "Item", Get(record, "item_ID"), "id")
      c1 == setField(item.c, "ItemBatch", itemBatch.obj, "item", item.obj)
      c2 == addDependent(c1, "Item", item.obj, "batches", itemBatch.obj)
      packSize == parseNumber(Get(record, "pack_size"))
      internalRecord ==
        [id |-> Get(record, "ID"),
         itemId |-> Get(record, "item_ID"),
         itemName |-> Get(record, "item_name"),
         itemBatch |-> itemBatch.obj,
         packSize |-> Num(1),
         numberOfPacks |-> Times(parseNumber(Get(record, "quantity")), packSize),
         numberOfPacksSent |-> Times(parseNumber(Get(record, "quantity")), packSize),
         transaction |-> transaction.obj,
         note |-> Get(record, "note"),
         costPrice |-> PerUnit(parseNumber(Get(record, "cost_price")), packSize),
         sellPrice |-> PerUnit(parseNumber(Get(record, "sell_price")), packSize),
         sortIndex |-> parseNumber(Get(record, "line_number")),
         expiryDate |-> parseDate(Get(record, "expiry_date"), Undefined),
         batch |-> Get(record, "batch")]
      c3 == update(c2, "TransactionBatch", internalRecord)
      c4 == save(addDependent(c3, "Transaction", transaction.obj, "batches", Get(record, "ID")),
                 "Transaction", transaction.obj)
  IN  save(addDependent(c4, "ItemBatch", itemBatch.obj, "transactionBatches", Get(record, "ID")),
           "ItemBatch", itemBatch.obj)

createOrUpdateRecord(c, recordType, record) ==
  IF ~sanityCheckIncomingRecord(recordType, record) THEN c
  ELSE CASE recordType = "Item" -> createOrUpdate_Item(c, record)
         [] recordType = "ItemCategory" -> createOrUpdate_ItemCategory(c, record)
         [] recordType = "ItemDepartment" -> createOrUpdate_ItemDepartment(c, record)
         [] recordType = "ItemBatch" -> createOrUpdate_ItemBatch(c, record)
         [] recordType = "ItemStoreJoin" -> createOrUpdate_ItemStoreJoin(c, record)
         [] recordType = "MasterListNameJoin" -> createOrUpdate_MasterListNameJoin(c, record)
         [] recordType = "MasterList" -> createOrUpdate_MasterList(c, record)
         [] recordType = "MasterListItem" -> createOrUpdate_MasterListItem(c, record)
         [] recordType = "Name" -> createOrUpdate_Name(c, record)
         [] recordType = "NameStoreJoin" -> createOrUpdate_NameStoreJoin(c, record)
         [] recordType = "NumberSequence" -> createOrUpdate_NumberSequence(c, record)
         [] recordType = "NumberToReuse" -> createOrUpdate_NumberToReuse(c, record)
         [] recordType = "Requisition" -> createOrUpdate_Requisition(c, record)
         [] recordType = "RequisitionItem" -> createOrUpdate_RequisitionItem(c, record)
         [] recordType = "Stocktake" -> createOrUpdate_Stocktake(c, record)
         [] recordType = "StocktakeBatch" -> createOrUpdate_StocktakeBatch(c, record)
         [] recordType = "Transaction" -> createOrUpdate_Transaction(c, record)
         [] recordType = "TransactionCategory" -> createOrUpdate_TransactionCategory(c, record)
         [] recordType = "TransactionBatch" -> createOrUpdate_TransactionBatch(c, record)
         [] OTHER -> c

(***************************************************************************)
(* Deletion Handler                                                        *)
(***************************************************************************)
DeleteTypes ==
  {"Item", "ItemBatch", "ItemCategory", "ItemDepartment", "ItemStoreJoin", "MasterList",
   "MasterListItem", "MasterListNameJoin", "Name", "NameStoreJoin", "NumberSequence",
   "NumberToReuse", "Requisition", "RequisitionItem", "Stocktake", "StocktakeBatch",
   "Transaction", "TransactionBatch", "TransactionCategory"}

\* deleteRecord whose switch has no case 'Transaction'
\* deleteRecord whose switch throws in its default case, as generatePlaceholder does
deleteRecord_DefaultThrows(c, recordType, recordId) ==
  IF recordType \in DeleteTypes
  THEN LET recordToDelete == getObject(c, recordType, recordId, "id")
       IN  delete(recordToDelete.c, recordType, recordToDelete.obj)
  ELSE Throw(c, "Unsupported database object type.")

deleteRecord_NoTransaction(c, recordType, recordId) ==
  IF recordType \in DeleteTypes \ {"Transaction"}
  THEN LET recordToDelete == getObject(c, recordType, recordId, "id")
       IN  delete(recordToDelete.c, recordType, recordToDelete.obj)
  ELSE c

deleteRecord(c, recordType, recordId) ==
  IF recordType \in DeleteTypes
  THEN LET recordToDelete == getObject(c, recordType, recordId, "id")
       IN  delete(recordToDelete.c, recordType, recordToDelete.obj)
  ELSE c

(***************************************************************************)
(* Integration Entry Point                                                 *)
(***************************************************************************)
\* integrateRecord whose switch sends any other change type to the update case
\* integrateRecord without the test of line 29 on RecordType and SyncType
integrateRecord_NoClassifierCheck(c, syncRecord) ==
  LET syncType == Get(syncRecord, "SyncType")
      recordType == Get(syncRecord, "RecordType")
      changeType == TranslateWith(SYNC_TYPES, syncType)
      internalRecordType == TranslateWith(RECORD_TYPES, recordType)
  IN  CASE changeType \in {"create", "update"} ->
             IF "data" \notin DOMAIN syncRecord THEN c
             ELSE createOrUpdateRecord(c, internalRecordType, syncRecord.data)
        [] changeType = "delete" ->
             IF ~Truthy(Get(syncRecord, "RecordID")) THEN c
             ELSE deleteRecord(c, internalRecordType, syncRecord.RecordID)
        [] OTHER ->
             Throw(c, "Cannot integrate sync record with sync type " \o syncType)

integrateRecord_DefaultUpdates(c, syncRecord) ==
  IF ~Truthy(Get(syncRecord, "RecordType")) \/ ~Truthy(Get(syncRecord, "SyncType")) THEN c
  ELSE LET syncType == syncRecord.SyncType
           recordType == syncRecord.RecordType
           changeType == TranslateWith(SYNC_TYPES, syncType)
           internalRecordType == TranslateWith(RECORD_TYPES, recordType)
       IN  CASE changeType = "delete" ->
                  IF ~Truthy(Get(syncRecord, "RecordID")) THEN c
                  ELSE deleteRecord(c, internalRecordType, syncRecord.RecordID)
             [] OTHER ->
                  IF "data" \notin DOMAIN syncRecord THEN c
                  ELSE createOrUpdateRecord(c, internalRecordType, syncRecord.data)

\* integrateRecord taking a create of a stored identifier for a repeat, and
\* ignoring it
integrateRecord_CreateOnce(c, syncRecord) ==
  IF ~Truthy(Get(syncRecord, "RecordType")) \/ ~Truthy(Get(syncRecord, "SyncType")) THEN c
  ELSE LET syncType == syncRecord.SyncType
           recordType == syncRecord.RecordType
           changeType == TranslateWith(SYNC_TYPES, syncType)
           internalRecordType == TranslateWith(RECORD_TYPES, recordType)
       IN  CASE changeType \in {"create", "update"} ->
                  IF "data" \notin DOMAIN syncRecord THEN c
                  ELSE IF /\ changeType = "create"
                          /\ internalRecordType \in DOMAIN c.objects
                          /\ filtered(c.objects[internalRecordType], "id",
                                      Get(syncRecord.data, "ID")) # <<>>
                       THEN c
                  ELSE createOrUpdateRecord(c, internalRecordType, syncRecord.data)
             [] changeType = "delete" ->
                  IF ~Truthy(Get(syncRecord, "RecordID")) THEN c
                  ELSE deleteRecord(c, internalRecordType, syncRecord.RecordID)
             [] OTHER ->
                  Throw(c, "Cannot integrate sync record with sync type " \o syncType)

integrateRecord(c, syncRecord) ==
  IF ~Truthy(Get(syncRecord, "RecordType")) \/ ~Truthy(Get(syncRecord, "SyncType")) THEN c
  ELSE LET syncType == syncRecord.SyncType
           recordType == syncRecord.RecordType
           changeType == TranslateWith(SYNC_TYPES, syncType)
           internalRecordType == TranslateWith(RECORD_TYPES, recordType)
       IN  CASE changeType \in {"create", "update"} ->
                  IF "data" \notin DOMAIN syncRecord THEN c
                  ELSE createOrUpdateRecord(c, internalRecordType, syncRecord.data)
             [] changeType = "delete" ->
                  IF ~Truthy(Get(syncRecord, "RecordID")) THEN c
                  ELSE deleteRecord(c, internalRecordType, syncRecord.RecordID)
             [] OTHER ->
                  Throw(c, "Cannot integrate sync record with sync type " \o syncType)

(***************************************************************************)
(* Incoming records.  A sync session hands the engine the records of one   *)
(* batch, in any order and any number of times.                            *)
(***************************************************************************)
Create(recordType, data) ==
  [RecordID |-> data.ID, RecordType |-> recordType, SyncType |-> "I", data |-> data]

Update(recordType, data) ==
  [RecordID |-> data.ID, RecordType |-> recordType, SyncType |-> "U", data |-> data]

Delete(recordType, recordId) ==
  [RecordID |-> recordId, RecordType |-> recordType, SyncType |-> "D"]

Date1 == "2016-05-01T00:00:00"

Date2 == "2017-01-31T00:00:00"

ItemA ==
  [ID |-> "i1", code |-> "amox", item_name |-> "Amoxicillin", default_pack_size |-> "2",
   buy_price |-> "3", category_ID |-> "k1", department_ID |-> "d1", description |-> "caps"]

ItemB == [ID |-> "i1", code |-> "amox2", item_name |-> "Amoxil", default_pack_size |-> "0"]

ItemNoCode == [ID |-> "i1", item_name |-> "Amoxicillin", default_pack_size |-> "2"]

ItemBatchA ==
  [ID |-> "b1", item_ID |-> "i1", pack_size |-> "2", quantity |-> "5", batch |-> "lot1",
   expiry_date |-> Date2, cost_price |-> "4", sell_price |-> "3", name_ID |-> "n1"]

ItemBatchB ==
  [ID |-> "b1", item_ID |-> "i2", pack_size |-> "0", quantity |-> "5", batch |-> "lot2",
   expiry_date |-> ZeroDate, cost_price |-> "4", sell_price |-> "3"]

NameA ==
  [ID |-> "n1", name |-> "Clinic", code |-> "cl", type |-> "facility", customer |-> "true",
   supplier |-> "false", manufacturer |-> "False", bill_address1 |-> "1 Main",
   bill_postal_zip_code |-> "1000"]

NameB ==
  [ID |-> "n2", name |-> "Depot", code |-> "dp", type |-> "store", customer |-> "TRUE",
   supplier |-> "True", manufacturer |-> "false", bill_address1 |-> "1 Main",
   bill_postal_zip_code |-> "1000"]

NameC ==
  [ID |-> "n3", name |-> "Ward", code |-> "wd", type |-> "zz", customer |-> "tRue",
   supplier |-> "false", manufacturer |-> "false", bill_address1 |-> "1 Main",
   bill_postal_zip_code |-> "2000"]

NameBare ==
  [ID |-> "n1", name |-> "Clinic2", code |-> "cl2", type |-> "patient", customer |-> "false",
   supplier |-> "false", manufacturer |-> "false"]

NameNoCode ==
  [ID |-> "n1", name |-> "Clinic", type |-> "facility", customer |-> "true",
   supplier |-> "false", manufacturer |-> "false", bill_address1 |-> "9 Side"]

SequenceOf(name, storeId) == name \o StoreSuffix(storeId)

RequisitionA ==
  [ID |-> "q1", status |-> "cn", date_entered |-> Date1, type |-> "im", daysToSupply |-> "0",
   serial_number |-> "1", user_ID |-> "u1"]

RequisitionB ==
  [ID |-> "q1", status |-> "fn", date_entered |-> Date2, type |-> "sh",
   daysToSupply |-> "30", serial_number |-> "2"]

RequisitionItemA ==
  [ID |-> "qi1", requisition_ID |-> "q1", item_ID |-> "i1", stock_on_hand |-> "5",
   Cust_stock_order |-> "60", line_number |-> "1"]

RequisitionItemB ==
  [ID |-> "qi1", requisition_ID |-> "q2", item_ID |-> "i1", stock_on_hand |-> "5",
   Cust_stock_order |-> "45"]

StocktakeA ==
  [ID |-> "t1", Description |-> "annual", stock_take_created_date |-> Date1,
   stock_take_date |-> Date1, stock_take_time |-> "101530", status |-> "sg",
   serial_number |-> "1", created_by_ID |-> "u1", invad_additions_ID |-> "tr1"]

StocktakeB ==
  [ID |-> "t1", Description |-> "spot", stock_take_created_date |-> Date2, status |-> "fn",
   serial_number |-> "2"]

StocktakeBatchA ==
  [ID |-> "sb1", stock_take_ID |-> "t1", item_line_ID |-> "b1", snapshot_qty |-> "3",
   snapshot_packsize |-> "2", expiry |-> Date2, Batch |-> "lot1", cost_price |-> "4",
   sell_price |-> "6", line_number |-> "1"]

StocktakeBatchB ==
  [ID |-> "sb1", stock_take_ID |-> "t2", item_line_ID |-> "b1", snapshot_qty |-> "3",
   snapshot_packsize |-> "0", expiry |-> Date2, Batch |-> "lot1", cost_price |-> "4",
   sell_price |-> "6"]

TransactionA ==
  [ID |-> "tr1", invoice_num |-> "11", name_ID |-> "n1", entry_date |-> Date1, type |-> "ci",
   status |-> "cn", user_ID |-> "u1", category_ID |-> "tc1", comment |-> "urgent"]

TransactionB ==
  [ID |-> "tr1", invoice_num |-> "12", name_ID |-> "n2", entry_date |-> Date2, type |-> "zz",
   status |-> "fn"]

TransactionBatchA ==
  [ID |-> "tb1", item_ID |-> "i1", item_name |-> "Amoxicillin", item_line_ID |-> "b1",
   batch |-> "lot1", expiry_date |-> Date2, pack_size |-> "2", quantity |-> "5",
   transaction_ID |-> "tr1", cost_price |-> "4", sell_price |-> "6"]

TransactionBatchB ==
  [ID |-> "tb1", item_ID |-> "i2", item_name |-> "Amoxil", item_line_ID |-> "b1",
   batch |-> "lot1", expiry_date |-> Date2, pack_size |-> "3", quantity |-> "1",
   transaction_ID |-> "tr1", cost_price |-> "4", sell_price |-> "6"]

Batches ==
  [items |->
     {Create("item", ItemA), Update("item", ItemB), Create("item", ItemNoCode),
      Create("item_category", [ID |-> "k1", Description |-> ""]),
      Create("item_department", [ID |-> "d1", department |-> "pharmacy"]),
      Create("item_line", ItemBatchA), Update("item_line", ItemBatchB),
      Delete("item", "i1"), Delete("item_line", "b1"), Delete("item_category", "k1")},
   joins |->
     {Create("item_store_join",
             [ID |-> "j1", item_ID |-> "i1", store_ID |-> THIS_STORE_ID, inactive |-> "true"]),
      Update("item_store_join", [ID |-> "j1", item_ID |-> "i1", store_ID |-> OTHER_STORE_ID]),
      Create("item_store_join", [ID |-> "j2", item_ID |-> "i1", store_ID |-> THIS_STORE_ID]),
      Create("name_store_join",
             [ID |-> "nj1", name_ID |-> "n1", store_ID |-> THIS_STORE_ID,
              inactive |-> "TRUE"]),
      Update("name_store_join", [ID |-> "nj1", name_ID |-> "n1", store_ID |-> OTHER_STORE_ID]),
      Create("name_store_join", [ID |-> "nj1", name_ID |-> "n1"]),
      Create("item", ItemB), Create("name", NameBare),
      Delete("item_store_join", "j1"), Delete("name_store_join", "nj1")},
   masterLists |->
     {Create("list_master", [ID |-> "m1", description |-> "", note |-> "all"]),
      Create("list_master", [ID |-> "m1"]),
      Create("list_master_line",
             [ID |-> "li1", item_ID |-> "i1", item_master_ID |-> "m1", imprest_quan |-> "10"]),
      Update("list_master_line", [ID |-> "li1", item_ID |-> "i1", item_master_ID |-> "m2"]),
      Create("list_master_line", [ID |-> "li2", item_ID |-> "i1"]),
      Create("list_master_name_join",
             [ID |-> "mj1", name_ID |-> "n1", list_master_ID |-> "m1"]),
      Update("list_master_name_join",
             [ID |-> "mj1", name_ID |-> "n1", list_master_ID |-> "m2"]),
      Delete("list_master", "m1"), Delete("list_master_line", "li1"),
      Delete("list_master_name_join", "mj1")},
   names |->
     {Create("name", NameA), Create("name", NameB), Create("name", NameC),
      Update("name", NameBare), Create("name", NameNoCode), Delete("name", "n1"),
      Delete("name", "n2")},
   sequences |->
     {Create("number",
             [ID |-> "s1", name |-> SequenceOf("customer_invoice_number", THIS_STORE_ID),
              value |-> "7"]),
      Create("number",
             [ID |-> "s2", name |-> SequenceOf("customer_invoice_number", OTHER_STORE_ID),
              value |-> "3"]),
      Update("number",
             [ID |-> "s1", name |-> SequenceOf("stock_take_number", THIS_STORE_ID),
              value |-> "9"]),
      Create("number", [ID |-> "s1", name |-> "customer_invoice_number"]),
      Create("number_reuse",
             [ID |-> "r1", name |-> SequenceOf("customer_invoice_number", THIS_STORE_ID),
              number_to_use |-> "4"]),
      Create("number_reuse",
             [ID |-> "r2", name |-> SequenceOf("customer_invoice_number", OTHER_STORE_ID),
              number_to_use |-> "5"]),
      Delete("number", "s1"), Delete("number_reuse", "r1")},
   requisitions |->
     {Create("requisition", RequisitionA), Update("requisition", RequisitionB),
      Create("requisition", [ID |-> "q1", status |-> "cn"]),
      Create("requisition_line", RequisitionItemA),
      Update("requisition_line", RequisitionItemB),
      Create("requisition_line", [ID |-> "", requisition_ID |-> "q1"]),
      Delete("requisition", "q1"), Delete("requisition_line", "qi1")},
   stocktakes |->
     {Create("Stock_take", StocktakeA), Update("Stock_take", StocktakeB),
      Create("Stock_take", [ID |-> "t1", Description |-> "annual"]),
      Create("Stock_take_lines", StocktakeBatchA), Update("Stock_take_lines", StocktakeBatchB),
      Create("Stock_take_lines", [ID |-> "sb1", stock_take_ID |-> "t1"]),
      Delete("Stock_take", "t1"), Delete("Stock_take_lines", "sb1")},
   transactions |->
     {Create("transact", TransactionA), Update("transact", TransactionB),
      Create("transact", [ID |-> "tr1", invoice_num |-> "11"]),
      Create("transaction_category",
             [ID |-> "tc1", category |-> "donation", code |-> "dn", type |-> "si"]),
      Create("transaction_category", [ID |-> "tc1", category |-> "donation"]),
      Create("trans_line", TransactionBatchA), Update("trans_line", TransactionBatchB),
      Create("trans_line", [ID |-> "tb1", item_ID |-> "i1"]),
      Delete("transact", "tr1"), Delete("trans_line", "tb1"),
      Delete("transaction_category", "tc1")},
   protocol |->
     {Create("item", ItemA), Create("transact", TransactionA),
      [RecordID |-> "i1", RecordType |-> "item", SyncType |-> "X", data |-> ItemB],
      [RecordID |-> "tr1", RecordType |-> "transact", SyncType |-> "M"],
      [RecordID |-> "i1", SyncType |-> "I", data |-> ItemB],
      [RecordID |-> "i1", RecordType |-> "item", data |-> ItemB],
      [RecordID |-> "i1", RecordType |-> "item", SyncType |-> "U"],
      [RecordType |-> "item", SyncType |-> "D"],
      Create("store", [ID |-> "i1", code |-> "st"]),
      Update("store", [ID |-> "i1", code |-> "st"]),
      Delete("store", "i1"), Delete("user", "u1")}]

BatchNames == DOMAIN Batches

AllRecords == UNION {Batches[b] : b \in BatchNames}

(***************************************************************************)
(* The state machine: one call of integrateRecord per step                 *)
(***************************************************************************)
EmptyStore == [t \in Types |-> <<>>]

\* the callers of getObject when two writers share the store
Workers == {1, 2}

\* a writer that is not in a call of getObject
NotResolving ==
  [pc |-> "idle", type |-> "", primaryKey |-> "", sawAbsent |-> FALSE, failed |-> FALSE]

\* the state the constructor of OfflineMobileApp leaves, and no sync run yet
AppConstructed ==
  /\ isSyncing = FALSE
  /\ syncError = ""
  /\ syncsInFlight = 0
  /\ syncsStarted = 0
  /\ ticks = 0

Init ==
  /\ database = EmptyStore
  /\ uuidCounter = 0
  /\ clock = 0
  /\ error = NoError
  /\ lastRecord = NoRecord
  /\ previousRecord = NoRecord
  /\ batch \in BatchNames
  /\ AppConstructed
  /\ serialized = TRUE
  /\ resolving = [w \in Workers |-> NotResolving]

\* the context of a call made in the current state
Call == Context(database, uuidCounter, clock + 1)

IntegrateRecord(syncRecord) ==
  /\ clock < MaxSteps
  /\ LET c == integrateRecord(Call, syncRecord)
     IN  /\ database' = c.objects
         /\ uuidCounter' = c.uuid
         /\ error' = c.error
  /\ clock' = clock + 1
  /\ lastRecord' = syncRecord
  /\ previousRecord' = lastRecord
  /\ UNCHANGED <<batch, appVars, resolverVars>>

Next == \E syncRecord \in Batches[batch] : IntegrateRecord(syncRecord)

Spec == Init /\ [][Next]_vars

\* integration of create and update records only
NoDeleteRecords(b) ==
  {r \in Batches[b] : TranslateWith(SYNC_TYPES, Get(r, "SyncType")) # "delete"}

NextNoDelete == \E syncRecord \in NoDeleteRecords(batch) : IntegrateRecord(syncRecord)

SpecNoDelete == Init /\ [][NextNoDelete]_vars

(***************************************************************************)
(* The caller: OfflineMobileApp.synchronize, run by the scheduler every    *)
(* SYNC_INTERVAL.  Javascript runs each callback to its next await without *)
(* interleaving, and the state set by setState is in this.state before the *)
(* next callback runs, so a step is one such run.  syncsInFlight counts    *)
(* the calls of synchronizer.synchronize() that have not settled.          *)
(***************************************************************************)
\* the messages of the errors a sync run can fail with
SyncErrors == {"Network request failed", "Authentication failed"}

\* synchronize without the test of isSyncing: the scheduler calling
\* synchronizer.synchronize at every tick
synchronize_NoGuard ==
  /\ ticks < MaxTicks
  /\ ticks' = ticks + 1
  /\ isSyncing' = TRUE
  /\ syncsInFlight' = syncsInFlight + 1
  /\ syncsStarted' = syncsStarted + 1
  /\ UNCHANGED <<syncError, engineVars, resolverVars>>

\* a tick of the scheduler: synchronize() up to its await
synchronize ==
  /\ ticks < MaxTicks
  /\ ticks' = ticks + 1
  /\ IF isSyncing
     THEN UNCHANGED <<isSyncing, syncsInFlight, syncsStarted>>
     ELSE /\ isSyncing' = TRUE
          /\ syncsInFlight' = syncsInFlight + 1
          /\ syncsStarted' = syncsStarted + 1
  /\ UNCHANGED <<syncError, engineVars, resolverVars>>

\* synchronizer.synchronize() resolved: synchronize() resumes after its await
synchronizeResolved ==
  /\ syncsInFlight > 0
  /\ syncsInFlight' = syncsInFlight - 1
  /\ isSyncing' = FALSE
  /\ UNCHANGED <<syncError, syncsStarted, ticks, engineVars, resolverVars>>

\* synchronizer.synchronize() rejected: the catch block of synchronize()
\* a catch block that records the message and leaves isSyncing set
synchronizeRejected_KeepsGuard(message) ==
  /\ syncsInFlight > 0
  /\ syncsInFlight' = syncsInFlight - 1
  /\ syncError' = message
  /\ UNCHANGED <<isSyncing, syncsStarted, ticks, engineVars, resolverVars>>

synchronizeRejected(message) ==
  /\ syncsInFlight > 0
  /\ syncsInFlight' = syncsInFlight - 1
  /\ isSyncing' = FALSE
  /\ syncError' = message
  /\ UNCHANGED <<syncsStarted, ticks, engineVars, resolverVars>>

InitApp == Init /\ batch = "protocol"

NextApp ==
  \/ synchronize
  \/ synchronizeResolved
  \/ \E message \in SyncErrors : synchronizeRejected(message)

SpecApp == InitApp /\ [][NextApp]_vars

\* a call of synchronizer.synchronize() that is in flight settles: its promise
\* resolves or rejects, and synchronize() resumes
SpecAppSettling ==
  SpecApp /\ WF_vars(synchronizeResolved \/ \E message \in SyncErrors : synchronizeRejected(message))

(***************************************************************************)
(* Two writers on one store.  A call of getObject is its lookup (lines     *)
(* 474-476) and, when the lookup found nothing, its create (lines          *)
(* 477-478).  When the calls are serialized, as the javascript runtime     *)
(* runs them, a lookup starts only when no other call is between its       *)
(* lookup and its create; otherwise the two steps of the writers           *)
(* interleave freely.  database.create on an identifier the table already  *)
(* holds either stores a second entity or fails.                           *)
(***************************************************************************)
\* the entities the writers resolve: <<type, primary key>>
Resolved == {<<"Item", "i1">>, <<"Item", "i2">>, <<"Name", "n1">>}

\* the lookup of getObject
getObjectLookup(w, type, primaryKey) ==
  /\ clock < MaxSteps
  /\ resolving[w].pc # "lookedUp"
  /\ serialized => \A v \in Workers : resolving[v].pc # "lookedUp"
  /\ LET results == filtered(database[type], "id", primaryKey)
     IN  resolving' =
           [resolving EXCEPT ![w] =
              [pc |-> IF Len(results) > 0 THEN "returned" ELSE "lookedUp",
               type |-> type, primaryKey |-> primaryKey,
               sawAbsent |-> Len(results) = 0, failed |-> FALSE]]
  /\ clock' = clock + 1
  /\ UNCHANGED <<database, uuidCounter, error, lastRecord, previousRecord, batch,
                 appVars, serialized>>

\* the create of getObject, which first looks the identifier up again
getObjectCreate_LooksUpAgain(w) ==
  /\ resolving[w].pc = "lookedUp"
  /\ LET type == resolving[w].type
         primaryKey == resolving[w].primaryKey
         made == generatePlaceholder(Call, type, primaryKey)
     IN  database' = IF Len(filtered(database[type], "id", primaryKey)) > 0 THEN database
                     ELSE create(made.c, type, made.placeholder).objects
  /\ resolving' = [resolving EXCEPT ![w].pc = "returned"]
  /\ UNCHANGED <<uuidCounter, clock, error, lastRecord, previousRecord, batch,
                 appVars, serialized>>

\* the create of getObject: generatePlaceholder and database.create
getObjectCreate(w) ==
  /\ resolving[w].pc = "lookedUp"
  /\ LET type == resolving[w].type
         primaryKey == resolving[w].primaryKey
         made == generatePlaceholder(Call, type, primaryKey)
     IN  \/ /\ database' = create(made.c, type, made.placeholder).objects
            /\ resolving' = [resolving EXCEPT ![w].pc = "returned"]
         \/ /\ Len(filtered(database[type], "id", primaryKey)) > 0
            /\ database' = database
            /\ resolving' = [resolving EXCEPT ![w].pc = "returned", ![w].failed = TRUE]
  /\ UNCHANGED <<uuidCounter, clock, error, lastRecord, previousRecord, batch,
                 appVars, serialized>>

InitWriters ==
  /\ database = EmptyStore
  /\ uuidCounter = 0
  /\ clock = 0
  /\ error = NoError
  /\ lastRecord = NoRecord
  /\ previousRecord = NoRecord
  /\ batch = "protocol"
  /\ AppConstructed
  /\ serialized \in BOOLEAN
  /\ resolving = [w \in Workers |-> NotResolving]

NextWriters ==
  \/ \E w \in Workers, e \in Resolved : getObjectLookup(w, e[1], e[2])
  \/ \E w \in Workers : getObjectCreate(w)

SpecWriters == InitWriters /\ [][NextWriters]_vars

(***************************************************************************)
(* Vocabulary of the properties                                            *)
(***************************************************************************)
\* a create or update record of a supported entity type, carrying data
IsCreateOrUpdate(r) ==
  /\ Get(r, "RecordType") \in DOMAIN RECORD_TYPES
  /\ TranslateWith(SYNC_TYPES, Get(r, "SyncType")) \in {"create", "update"}
  /\ "data" \in DOMAIN r

IsDelete(r) ==
  /\ Get(r, "RecordType") \in DOMAIN RECORD_TYPES
  /\ TranslateWith(SYNC_TYPES, Get(r, "SyncType")) = "delete"
  /\ Truthy(Get(r, "RecordID"))

InternalType(r) == TranslateWith(RECORD_TYPES, Get(r, "RecordType"))

\* the entities of a table with the given value in a field
Matching(objects, type, field, value) ==
  {i \in 1..Len(objects[type]) : Get(objects[type][i], field) = value}

Present(objects, type, id) == Matching(objects, type, "id", id) # {}

TheEntity(objects, type, id) ==
  objects[type][CHOOSE i \in Matching(objects, type, "id", id) : TRUE]

\* the relations of the schema: <<type, field, type pointed to>>
Relations ==
  {<<"Item", "category", "ItemCategory">>, <<"Item", "department", "ItemDepartment">>,
   <<"ItemBatch", "item", "Item">>, <<"ItemBatch", "supplier", "Name">>,
   <<"MasterListItem", "item", "Item">>, <<"MasterListItem", "masterList", "MasterList">>,
   <<"MasterListNameJoin", "name", "Name">>,
   <<"MasterListNameJoin", "masterList", "MasterList">>,
   <<"Name", "billingAddress", "Address">>, <<"Name", "masterList", "MasterList">>,
   <<"NumberToReuse", "numberSequence", "NumberSequence">>,
   <<"Requisition", "user", "User">>,
   <<"RequisitionItem", "requisition", "Requisition">>, <<"RequisitionItem", "item", "Item">>,
   <<"Stocktake", "createdBy", "User">>, <<"Stocktake", "finalisedBy", "User">>,
   <<"Stocktake", "additions", "Transaction">>, <<"Stocktake", "reductions", "Transaction">>,
   <<"StocktakeBatch", "stocktake", "Stocktake">>,
   <<"StocktakeBatch", "itemBatch", "ItemBatch">>,
   <<"Transaction", "otherParty", "Name">>, <<"Transaction", "enteredBy", "User">>,
   <<"Transaction", "category", "TransactionCategory">>,
   <<"TransactionBatch", "itemBatch", "ItemBatch">>,
   <<"TransactionBatch", "transaction", "Transaction">>}

(***************************************************************************)
(* Properties                                                              *)
(***************************************************************************)

\* C1: integrating a create/update record of a supported type a second time,
\* right after the first, leaves every table of the store as the first
\* integration left it.
C1_Idempotent ==
  \A r \in Batches[batch] :
    IsCreateOrUpdate(r) =>
      LET once == integrateRecord(Call, r)
          twice == integrateRecord(Context(once.objects, once.uuid, clock + 2), r)
      IN  twice.objects = once.objects

\* a record that passed the sanity check has just been integrated twice in a
\* row into a store it changed
C1_Witness ==
  /\ IsCreateOrUpdate(lastRecord)
  /\ previousRecord = lastRecord
  /\ sanityCheckIncomingRecord(InternalType(lastRecord), lastRecord.data)
  /\ error = NoError
  /\ Present(database, InternalType(lastRecord), lastRecord.data.ID)
  /\ \E t \in Types \ {InternalType(lastRecord)} : database[t] # <<>>

\* C2: a step that integrates an ItemBatch record naming an Item that is not
\* in the store leaves exactly one Item with that identifier, a placeholder
\* with the default values; a step that integrates an Item record whose
\* identifier is in the store creates no Item, leaves exactly one Item with
\* that identifier, carrying the record's fields, and keeps the batches that
\* pointed to it and its batch collection.
C2_ForwardReferenceStep ==
  LET r == lastRecord'
      data == r.data
  IN  /\ (/\ IsCreateOrUpdate(r) /\ InternalType(r) = "ItemBatch"
          /\ sanityCheckIncomingRecord("ItemBatch", data)
          /\ ~Present(database, "Item", data.item_ID))
         => /\ Cardinality(Matching(database', "Item", "id", data.item_ID)) = 1
            /\ Len(database'["Item"]) = Len(database["Item"]) + 1
            /\ TheEntity(database', "Item", data.item_ID) =
                 [id |-> data.item_ID, code |-> "placeholder", name |-> "placeholder",
                  defaultPackSize |-> Num(0), batches |-> {data.ID}]
            /\ TheEntity(database', "ItemBatch", data.ID).item = data.item_ID
      /\ (/\ IsCreateOrUpdate(r) /\ InternalType(r) = "Item"
          /\ sanityCheckIncomingRecord("Item", data)
          /\ Present(database, "Item", data.ID))
         => /\ Len(database'["Item"]) = Len(database["Item"])
            /\ Cardinality(Matching(database', "Item", "id", data.ID)) = 1
            /\ TheEntity(database', "Item", data.ID).code = data.code
            /\ TheEntity(database', "Item", data.ID).name = data.item_name
            /\ TheEntity(database', "Item", data.ID).defaultPackSize = Num(1)
            /\ Get(TheEntity(database', "Item", data.ID), "batches") =
                 Get(TheEntity(database, "Item", data.ID), "batches")
            /\ database'["ItemBatch"] = database["ItemBatch"]

\* C2: every step keeps forward references safe: the placeholder Item made
\* for an ItemBatch is the one entity its Item record later overwrites.
C2_ForwardReference == [][C2_ForwardReferenceStep]_vars

\* the Item record arrived right after the ItemBatch record that named it,
\* and the two are linked
C2_Witness ==
  /\ previousRecord = Create("item_line", ItemBatchA)
  /\ lastRecord = Create("item", ItemA)
  /\ clock = 2
  /\ Len(database["Item"]) = 1
  /\ TheEntity(database, "Item", "i1").code = "amox"
  /\ TheEntity(database, "Item", "i1").batches = {"b1"}
  /\ TheEntity(database, "ItemBatch", "b1").item = "i1"

\* C3: with create and update records only, every relation of a stored
\* entity that is not null, and every member of a collection of dependents,
\* names an entity of the expected type that is in the store.
C3_ReferentialIntegrity ==
  /\ \A rel \in Relations :
       \A i \in 1..Len(database[rel[1]]) :
         LET target == Get(database[rel[1]][i], rel[2])
         IN  target \notin {Null, Undefined} => Present(database, rel[3], target)
  /\ \A col \in Collections :
       \A i \in 1..Len(database[col[1]]) :
         col[2] \in DOMAIN database[col[1]][i] =>
           \A member \in database[col[1]][i][col[2]] : Present(database, col[3], member)

\* a stored entity points to an entity whose own record has not arrived: a
\* placeholder
C3_Witness ==
  /\ lastRecord = Create("item_line", ItemBatchA)
  /\ Present(database, "ItemBatch", "b1")
  /\ TheEntity(database, "ItemBatch", "b1").supplier = "n1"
  /\ Present(database, "Name", "n1")
  /\ TheEntity(database, "Name", "n1").name = "placeholder"

UnsupportedType == "Unsupported database object type."

\* C4: no call of integrateRecord ends with the error of a type that has no
\* placeholder template.
C4_PlaceholderTotal == error # UnsupportedType

\* a create/update record of the given type that passes the sanity check and
\* names a sequence of this store
OwnSequenceRecord(r, type) ==
  /\ IsCreateOrUpdate(r)
  /\ InternalType(r) = type
  /\ sanityCheckIncomingRecord(type, r.data)
  /\ SEQUENCE_KEYS_translate(r.data.name, THIS_STORE_ID) # Null

\* C5: when the first two records of a session are a NumberToReuse record and
\* then the NumberSequence record of the same sequence of this store, the
\* store holds exactly one NumberSequence with that sequence key, the
\* NumberToReuse points to it and it carries the record's value.
C5_SequencePlaceholderReplaced ==
  (/\ clock = 2
   /\ OwnSequenceRecord(previousRecord, "NumberToReuse")
   /\ OwnSequenceRecord(lastRecord, "NumberSequence")
   /\ SEQUENCE_KEYS_translate(previousRecord.data.name, THIS_STORE_ID) =
        SEQUENCE_KEYS_translate(lastRecord.data.name, THIS_STORE_ID))
  => LET key == SEQUENCE_KEYS_translate(lastRecord.data.name, THIS_STORE_ID)
         found == Matching(database, "NumberSequence", "sequenceKey", key)
     IN  /\ Cardinality(found) = 1
         /\ \A i \in found :
              /\ database["NumberSequence"][i].id =
                   TheEntity(database, "NumberToReuse", previousRecord.data.ID).numberSequence
              /\ Get(database["NumberSequence"][i], "highestNumberUsed") =
                   parseNumber(lastRecord.data.value)

\* C6: no two entities of a type have the same identifier.
C6_UniqueIdentifiers ==
  \A t \in Types :
    \A i, j \in 1..Len(database[t]) : database[t][i].id = database[t][j].id => i = j

\* two placeholders of one type stand in the store after a repeated record
\* and a forward reference to a second identifier
C6_Witness ==
  /\ previousRecord = Create("item_line", ItemBatchA)
  /\ lastRecord = Update("item_line", ItemBatchB)
  /\ Len(database["Item"]) = 2
  /\ Len(database["ItemBatch"]) = 1

\* C7: a step that integrates a delete record of a type the Deletion Handler
\* supports, for an identifier no entity of that type has, changes no table
\* and ends without error.
C7_DeleteAbsentStep ==
  (/\ IsDelete(lastRecord')
   /\ InternalType(lastRecord') \in DeleteTypes
   /\ ~Present(database, InternalType(lastRecord'), lastRecord'.RecordID))
  => /\ database' = database
     /\ error' = NoError

\* C7: every step that deletes an absent entity of a supported type is a
\* no-op without error.
C7_DeleteAbsent == [][C7_DeleteAbsentStep]_vars

\* C8: right after a delete record of a Transaction, no Transaction has its
\* identifier, and the Reference Resolver, asked for that identifier, makes a
\* Transaction with the default values of a placeholder.
C8_DeleteThenLookup ==
  (IsDelete(lastRecord) /\ InternalType(lastRecord) = "Transaction")
  => LET id == lastRecord.RecordID
         resolved == getObject(Call, "Transaction", id, "id")
     IN  /\ ~Present(database, "Transaction", id)
         /\ resolved.obj = id
         /\ resolved.c.error = NoError
         /\ TheEntity(resolved.c.objects, "Transaction", id) =
              [id |-> id, serialNumber |-> "placeholder", comment |-> "placeholder",
               entryDate |-> CurrentDate(clock + 1), type |-> "placeholder",
               status |-> "placeholder", theirRef |-> "placeholder"]

\* the Transaction of the record integrated before has just been deleted
C8_Witness ==
  /\ previousRecord = Create("transact", TransactionA)
  /\ lastRecord = Delete("transact", "tr1")
  /\ error = NoError
  /\ database["Transaction"] = <<>>
  /\ database["Name"] # <<>>

\* a record with a record type and a change type code of no known change
UnknownChangeType(r) ==
  /\ Truthy(Get(r, "RecordType"))
  /\ Truthy(Get(r, "SyncType"))
  /\ Get(r, "SyncType") \notin DOMAIN SYNC_TYPES

\* C9: integrating a record whose change type code is unknown raises the
\* error that names the code and leaves the tables and the identifier
\* generator as they were.
C9_UnknownChangeTypeFatal ==
  \A r \in AllRecords :
    UnknownChangeType(r) =>
      LET c == integrateRecord(Call, r)
      IN  /\ c.error = "Cannot integrate sync record with sync type " \o r.SyncType
          /\ c.objects = database
          /\ c.uuid = uuidCounter

\* a record of unknown change type was refused, and the next record was
\* integrated into the store
C9_Witness ==
  /\ UnknownChangeType(previousRecord)
  /\ lastRecord = Create("transact", TransactionA)
  /\ error = NoError
  /\ Present(database, "Transaction", "tr1")

\* a record the Sanity Checker accepts, per external record type
Sufficient ==
  [item |-> ItemA,
   item_category |-> [ID |-> "k1", Description |-> ""],
   item_department |-> [ID |-> "d1", department |-> "pharmacy"],
   item_line |-> ItemBatchA,
   item_store_join |-> [ID |-> "j1", item_ID |-> "i1", store_ID |-> THIS_STORE_ID],
   list_master |-> [ID |-> "m1", description |-> ""],
   list_master_line |-> [ID |-> "li1", item_ID |-> "i1", item_master_ID |-> "m1"],
   list_master_name_join |-> [ID |-> "mj1", name_ID |-> "n1", list_master_ID |-> "m1"],
   name |-> NameA,
   name_store_join |-> [ID |-> "nj1", name_ID |-> "n1", store_ID |-> THIS_STORE_ID],
   number |->
     [ID |-> "s1", name |-> SequenceOf("customer_invoice_number", THIS_STORE_ID),
      value |-> "7"],
   number_reuse |->
     [ID |-> "r1", name |-> SequenceOf("customer_invoice_number", THIS_STORE_ID),
      number_to_use |-> "4"],
   requisition |-> RequisitionA,
   requisition_line |-> RequisitionItemA,
   Stock_take |-> StocktakeA,
   Stock_take_lines |-> StocktakeBatchA,
   transact |-> TransactionA,
   transaction_category |->
     [ID |-> "tc1", category |-> "donation", code |-> "dn", type |-> "si"],
   trans_line |-> TransactionBatchA]

Without(record, field) == [f \in DOMAIN record \ {field} |-> record[f]]

\* records the Sanity Checker must refuse: for every type a sufficient record
\* with its ID emptied and one with its ID removed, and the records of the
\* batches that lack a required field
MalformedRecords ==
  {[RecordType |-> t, SyncType |-> "I", data |-> [Sufficient[t] EXCEPT !.ID = ""]] :
     t \in DOMAIN Sufficient}
  \cup {[RecordType |-> t, SyncType |-> "U", data |-> Without(Sufficient[t], "ID")] :
          t \in DOMAIN Sufficient}
  \cup {Create("item", ItemNoCode), Create("name", NameNoCode),
        Create("item", Without(ItemA, "item_name")),
        Create("item_line", Without(ItemBatchA, "item_ID")),
        Create("item_line", Without(ItemBatchA, "sell_price")),
        Create("number", [ID |-> "s1", name |-> "customer_invoice_number"]),
        Create("requisition", [ID |-> "q1", status |-> "cn"]),
        Create("requisition_line", [ID |-> "", requisition_ID |-> "q1"]),
        Create("requisition_line", Without(RequisitionItemA, "requisition_ID")),
        Create("Stock_take", [ID |-> "t1", Description |-> "annual"]),
        Create("Stock_take_lines", [ID |-> "sb1", stock_take_ID |-> "t1"]),
        Create("transact", [ID |-> "tr1", invoice_num |-> "11"]),
        Create("transact", Without(TransactionA, "name_ID")),
        Create("transaction_category", [ID |-> "tc1", category |-> "donation"]),
        Create("trans_line", [ID |-> "tb1", item_ID |-> "i1"]),
        Create("list_master_line", [ID |-> "li1", item_master_ID |-> "m1"]),
        Create("list_master_name_join", [ID |-> "mj1", name_ID |-> "n1"]),
        Create("item_store_join", [ID |-> "j1", item_ID |-> "i1"]),
        Create("name_store_join", [ID |-> "nj1", name_ID |-> "n1"]),
        Create("number_reuse", [ID |-> "r1", number_to_use |-> "4"])}

\* C10: integrating a create/update record that lacks its ID or a field its
\* type requires changes no table, takes no identifier and raises no error.
C10_MalformedTolerated ==
  \A r \in MalformedRecords :
    LET c == integrateRecord(Call, r)
    IN  /\ c.objects = database
        /\ c.uuid = uuidCounter
        /\ c.error = NoError

\* a malformed record has just been handed to a store that holds entities
C10_Witness ==
  /\ lastRecord \in MalformedRecords
  /\ error = NoError
  /\ database # EmptyStore

\* a sync record integrateRecord cannot classify: no record type, no change
\* type, a create/update record with no data, a delete record with no RecordID
MissingClassifier(r) ==
  \/ ~Truthy(Get(r, "RecordType"))
  \/ ~Truthy(Get(r, "SyncType"))
  \/ /\ TranslateWith(SYNC_TYPES, Get(r, "SyncType")) \in {"create", "update"}
     /\ "data" \notin DOMAIN r
  \/ /\ TranslateWith(SYNC_TYPES, Get(r, "SyncType")) = "delete"
     /\ ~Truthy(Get(r, "RecordID"))

\* every record of a batch with one of its classifiers removed or emptied
Unclassified(b) ==
  {r \in UNION {{Without(s, "RecordType"), Without(s, "SyncType"), Without(s, "data"),
                 Without(s, "RecordID"), [s EXCEPT !.RecordType = ""],
                 [s EXCEPT !.SyncType = ""], [s EXCEPT !.RecordID = ""]} :
                  s \in {a \in Batches[b] : DOMAIN a = {"RecordID", "RecordType", "SyncType"}
                                            \/ DOMAIN a = {"RecordID", "RecordType",
                                                           "SyncType", "data"}}}
             \cup Batches[b] :
     MissingClassifier(r)}

\* C11: integrating a sync record with no RecordType or no SyncType, a
\* create/update record with no data, or a delete record with no RecordID
\* changes no table, takes no identifier and raises no error.
C11_MissingClassifierSkipped ==
  \A r \in Unclassified(batch) :
    LET c == integrateRecord(Call, r)
    IN  /\ c.objects = database
        /\ c.uuid = uuidCounter
        /\ c.error = NoError

\* such a record has just been handed to a store that holds entities
C11_Witness ==
  /\ MissingClassifier(lastRecord)
  /\ lastRecord \in Unclassified(batch)
  /\ error = NoError
  /\ database # EmptyStore

\* record types of the remote system that RECORD_TYPES does not translate
UnsupportedRecordTypes == {"store", "user", "abbreviation", "Item"}

\* a record of an entity type the engine does not support, with a change
\* type it recognises and the fields that change type needs
IsUnsupported(r) ==
  /\ Truthy(Get(r, "RecordType"))
  /\ Get(r, "RecordType") \notin DOMAIN RECORD_TYPES
  /\ \/ /\ TranslateWith(SYNC_TYPES, Get(r, "SyncType")) \in {"create", "update"}
        /\ "data" \in DOMAIN r
     \/ /\ TranslateWith(SYNC_TYPES, Get(r, "SyncType")) = "delete"
        /\ Truthy(Get(r, "RecordID"))

\* every record of a batch, handed over under an unsupported record type
UnsupportedRecords(b) ==
  {r \in {[s EXCEPT !.RecordType = t] :
            s \in {a \in Batches[b] : "RecordType" \in DOMAIN a},
            t \in UnsupportedRecordTypes}
         \cup Batches[b] :
     IsUnsupported(r)}

\* C12: integrating a create, update or delete record whose record type is
\* outside the supported set changes no table, takes no identifier and
\* raises no error.
C12_UnsupportedTypeIgnored ==
  \A r \in UnsupportedRecords(batch) :
    LET c == integrateRecord(Call, r)
    IN  /\ c.objects = database
        /\ c.uuid = uuidCounter
        /\ c.error = NoError

\* a record of an unsupported type has just been handed to a store that holds
\* an entity with the identifier the record names
C12_Witness ==
  /\ IsUnsupported(lastRecord)
  /\ error = NoError
  /\ \E t \in Types : Present(database, t, Get(lastRecord, "RecordID"))

\* C13: in every reachable state every Item has defaultPackSize 1 and every
\* ItemBatch, StocktakeBatch and TransactionBatch has packSize 1,
\* placeholders included.
C13_PackSizeOne ==
  /\ \A i \in 1..Len(database["Item"]) :
       Get(database["Item"][i], "defaultPackSize") = Num(1)
  /\ \A type \in {"ItemBatch", "StocktakeBatch", "TransactionBatch"} :
       \A i \in 1..Len(database[type]) : Get(database[type][i], "packSize") = Num(1)

MaxQuantity == 3

\* the batch records of the three types with pack size P and quantity Q:
\* <<record, internal type, pack-count fields>>
PackedRecordsOfAnyBatch(P, Q) ==
  {<<Create("item_line",
            [ItemBatchA EXCEPT !.pack_size = ToString(P), !.quantity = ToString(Q)]),
     "ItemBatch", {"numberOfPacks"}>>,
   <<Update("Stock_take_lines",
            [StocktakeBatchA EXCEPT !.snapshot_packsize = ToString(P),
                                    !.snapshot_qty = ToString(Q)]),
     "StocktakeBatch", {"snapshotNumberOfPacks", "countedNumberOfPacks"}>>,
   <<Create("trans_line",
            [TransactionBatchA EXCEPT !.pack_size = ToString(P), !.quantity = ToString(Q)]),
     "TransactionBatch", {"numberOfPacks", "numberOfPacksSent"}>>}

\* those of the record types a batch carries
PackedRecords(b, P, Q) ==
  {p \in PackedRecordsOfAnyBatch(P, Q) :
     \E r \in Batches[b] : Get(r, "RecordType") = p[1].RecordType}

\* C14: integrating an ItemBatch, StocktakeBatch or TransactionBatch record
\* with pack size P and quantity Q leaves the entity with packSize 1 and each
\* of its pack-count fields equal to P * Q.
C14_PackSizeNormalized ==
  \A P \in 0..MaxQuantity, Q \in 0..MaxQuantity :
    \A p \in PackedRecords(batch, P, Q) :
      LET c == integrateRecord(Call, p[1])
          id == p[1].data.ID
      IN  /\ c.error = NoError
          /\ Present(c.objects, p[2], id)
          /\ TheEntity(c.objects, p[2], id).packSize = Num(1)
          /\ \A f \in p[3] : TheEntity(c.objects, p[2], id)[f] = Num(P * Q)

\* a TransactionBatch of 5 packs of 2 has been integrated, then the same
\* identifier with 1 pack of 3
C14_Witness ==
  /\ previousRecord = Create("trans_line", TransactionBatchA)
  /\ lastRecord = Update("trans_line", TransactionBatchB)
  /\ error = NoError
  /\ Present(database, "TransactionBatch", "tb1")
  /\ TheEntity(database, "TransactionBatch", "tb1").numberOfPacks = Num(3)
  /\ TheEntity(database, "TransactionBatch", "tb1").numberOfPacksSent = Num(3)
  /\ TheEntity(database, "TransactionBatch", "tb1").packSize = Num(1)

\* the customer stock orders tried
Orders == 0..MaxQuantity \cup {45, 60}

\* C15: integrating a RequisitionItem whose stored Requisition has
\* daysToSupply 0 raises no error and stores dailyUsage 0; when daysToSupply
\* is not 0, dailyUsage is Cust_stock_order divided by daysToSupply.
C15_DailyUsageGuard ==
  \A i \in 1..Len(database["Requisition"]), Q \in Orders :
    LET requisition == database["Requisition"][i]
        daysToSupply == requisition.daysToSupply
        r == Create("requisition_line",
                    [RequisitionItemA EXCEPT !.requisition_ID = requisition.id,
                                             !.Cust_stock_order = ToString(Q)])
        c == integrateRecord(Call, r)
        dailyUsage == TheEntity(c.objects, "RequisitionItem", r.data.ID).dailyUsage
    IN  /\ c.error = NoError
        /\ Present(c.objects, "RequisitionItem", r.data.ID)
        /\ IF daysToSupply = Num(0) THEN dailyUsage = Num(0)
           ELSE /\ dailyUsage # NaN
                /\ dailyUsage[1] * daysToSupply[1] = Q * daysToSupply[2] * dailyUsage[2]

\* a RequisitionItem has been integrated after its Requisition, whose
\* daysToSupply is 0
C15_Witness ==
  /\ previousRecord = Create("requisition", RequisitionA)
  /\ lastRecord = Create("requisition_line", RequisitionItemA)
  /\ error = NoError
  /\ Present(database, "Requisition", "q1")
  /\ TheEntity(database, "Requisition", "q1").daysToSupply = Num(0)
  /\ Present(database, "RequisitionItem", "qi1")
  /\ TheEntity(database, "RequisitionItem", "qi1").dailyUsage = Num(0)

\* external sequence names that SEQUENCE_KEYS.translate gives no key for in
\* this store: sequences of another store, and names of no store
ForeignSequenceNames ==
  {n \in {SequenceOf(p, OTHER_STORE_ID) : p \in DOMAIN SequenceNames}
         \cup DOMAIN SequenceNames \cup {SequenceOf("purchase_order_number", THIS_STORE_ID)} :
     SEQUENCE_KEYS_translate(n, settingsGet) = Null}

\* the NumberSequence and NumberToReuse records of such sequences, under
\* identifiers the store may and may not hold
ForeignSequenceRecords ==
  {Create("number", [ID |-> id, name |-> n, value |-> "3"]) :
     id \in {"s1", "s2"}, n \in ForeignSequenceNames}
  \cup {Update("number_reuse", [ID |-> id, name |-> n, number_to_use |-> "5"]) :
          id \in {"r1", "r2"}, n \in ForeignSequenceNames}

\* C16: integrating a NumberSequence or NumberToReuse record whose sequence
\* name translates to no key for this store creates and updates no entity of
\* any type, takes no identifier and raises no error.
C16_ForeignSequenceSkipped ==
  \A r \in ForeignSequenceRecords :
    LET c == integrateRecord(Call, r)
    IN  /\ c.objects = database
        /\ c.uuid = uuidCounter
        /\ c.error = NoError

\* a record of a sequence of another store has just been handed to a store
\* that holds a NumberSequence of this store
C16_Witness ==
  /\ lastRecord \in ForeignSequenceRecords
  /\ ForeignSequenceNames # {}
  /\ error = NoError
  /\ database["NumberSequence"] # <<>>

\* the next call of integrateRecord, on the store the call before it left
Then(c, syncRecord) == integrateRecord(Context(c.objects, c.uuid, c.now + 1), syncRecord)

AddressLines == {"1 Main", "9 Side"}

ZipCodes == {"1000", "2000"}

\* C17: in a store with no Address, two Name records with the same line1 and
\* zip and no other address line get one Address as billingAddress, the only
\* one stored; a third Name record with another zip gets a second, new Address.
C17_AddressShared ==
  database["Address"] = <<>> =>
    \A line1 \in AddressLines, zip \in ZipCodes, otherZip \in ZipCodes :
      otherZip # zip =>
        LET first == integrateRecord(Call,
                       Create("name", [NameA EXCEPT !.bill_address1 = line1,
                                                    !.bill_postal_zip_code = zip]))
            second == Then(first,
                        Create("name", [NameB EXCEPT !.bill_address1 = line1,
                                                     !.bill_postal_zip_code = zip]))
            third == Then(second,
                       Create("name", [NameC EXCEPT !.bill_address1 = line1,
                                                    !.bill_postal_zip_code = otherZip]))
            shared == TheEntity(second.objects, "Name", NameA.ID).billingAddress
            fresh == TheEntity(third.objects, "Name", NameC.ID).billingAddress
        IN  /\ third.error = NoError
            /\ Len(second.objects["Address"]) = 1
            /\ TheEntity(second.objects, "Name", NameB.ID).billingAddress = shared
            /\ Matching(second.objects, "Address", "id", shared) = {1}
            /\ second.objects["Address"][1] = [id |-> shared, line1 |-> line1, zipCode |-> zip]
            /\ Len(third.objects["Address"]) = 2
            /\ fresh # shared
            /\ third.objects["Address"][1] = second.objects["Address"][1]
            /\ third.objects["Address"][2] =
                 [id |-> fresh, line1 |-> line1, zipCode |-> otherZip]
            /\ TheEntity(third.objects, "Name", NameA.ID).billingAddress = shared
            /\ TheEntity(third.objects, "Name", NameB.ID).billingAddress = shared

\* the three Name records have been integrated into a store that had no
\* Address: two Addresses, the first shared by the first two names
C17_Witness ==
  /\ lastRecord = Create("name", NameC)
  /\ clock = 3
  /\ error = NoError
  /\ Len(database["Address"]) = 2
  /\ Present(database, "Name", "n1") /\ Present(database, "Name", "n2")
  /\ Present(database, "Name", "n3")
  /\ TheEntity(database, "Name", "n1").billingAddress = database["Address"][1].id
  /\ TheEntity(database, "Name", "n2").billingAddress = database["Address"][1].id
  /\ TheEntity(database, "Name", "n3").billingAddress = database["Address"][2].id

\* the collections of dependents kept on a parent, with the relation of the
\* dependent that names its parent:
\* <<parent type, collection, dependent type, relation>>
DependentCollections ==
  {<<"Item", "batches", "ItemBatch", "item">>,
   <<"Stocktake", "batches", "StocktakeBatch", "stocktake">>,
   <<"Requisition", "items", "RequisitionItem", "requisition">>,
   <<"Transaction", "batches", "TransactionBatch", "transaction">>,
   <<"NumberSequence", "numbersToReuse", "NumberToReuse", "numberSequence">>,
   <<"MasterList", "items", "MasterListItem", "masterList">>}

\* the members of a collection of a stored entity
Members(entity, field) == IF field \in DOMAIN entity THEN entity[field] ELSE {}

\* the stored dependents whose relation names the parent
PointingTo(objects, type, relation, parentId) ==
  {objects[type][j].id : j \in Matching(objects, type, relation, parentId)}

\* C18: in every state reached by create/update integrations, the collection
\* of dependents of each parent is exactly the set of stored dependents whose
\* relation currently names that parent.
C18_CollectionsExact ==
  \A col \in DependentCollections :
    \A i \in 1..Len(database[col[1]]) :
      Members(database[col[1]][i], col[2])
        = PointingTo(database, col[3], col[4], database[col[1]][i].id)

\* the create/update records of a batch that the Sanity Checker accepts
SufficientRecords(b) ==
  {r \in Batches[b] :
     IsCreateOrUpdate(r) /\ sanityCheckIncomingRecord(InternalType(r), r.data)}

\* two records of one entity type and one identifier
SameEntity(r1, r2) == r1.RecordType = r2.RecordType /\ r1.data.ID = r2.data.ID

NoEntity == [absent |-> TRUE]

\* the fields of a stored entity without its identifier
Content(objects, type, id) ==
  IF id \in {Null, Undefined} \/ ~Present(objects, type, id) THEN NoEntity
  ELSE Without(TheEntity(objects, type, id), "id")

\* the relations to entities whose identifier generateUUID makes
GeneratedRelations == ("billingAddress" :> "Address") @@ ("numberSequence" :> "NumberSequence")

\* the fields of the entity of a type and identifier; a relation to an entity
\* with a generated identifier is taken as the fields of that entity
Fields(objects, type, id) ==
  IF ~Present(objects, type, id) THEN NoEntity
  ELSE LET entity == TheEntity(objects, type, id)
       IN  [f \in DOMAIN entity |->
              IF f \in DOMAIN GeneratedRelations
              THEN Content(objects, GeneratedRelations[f], entity[f])
              ELSE entity[f]]

\* the fields after r1 then r2 are the fields after r2 alone
LastRecordWins(r1, r2) ==
  LET type == InternalType(r2)
      id == r2.data.ID
      both == Then(integrateRecord(Call, r1), r2)
      alone == integrateRecord(Context(database, uuidCounter, clock + 2), r2)
  IN  Fields(both.objects, type, id) = Fields(alone.objects, type, id)

\* C19: for two create/update records the Sanity Checker accepts, of one
\* entity type and one identifier, the fields of the entity after the first
\* then the second are its fields after the second alone.
C19_LastRecordWins ==
  \A r1, r2 \in SufficientRecords(batch) : SameEntity(r1, r2) => LastRecordWins(r1, r2)

\* records with foreign keys absent or empty: <<record, internal type,
\* relations that must be null, types those relations point to>>
AbsentKeyRecords ==
  {<<Update("item", ItemB), "Item", {"category", "department"},
     {"ItemCategory", "ItemDepartment"}>>,
   <<Create("item", [ItemA EXCEPT !.category_ID = "", !.department_ID = ""]), "Item",
     {"category", "department"}, {"ItemCategory", "ItemDepartment"}>>,
   <<Update("item_line", [ItemBatchA EXCEPT !.name_ID = ""]), "ItemBatch", {"supplier"},
     {"Name"}>>,
   <<Update("requisition", RequisitionB), "Requisition", {"user"}, {"User"}>>,
   <<Update("Stock_take", StocktakeB), "Stocktake",
     {"createdBy", "finalisedBy", "additions", "reductions"}, {"User", "Transaction"}>>,
   <<Update("transact", [TransactionB EXCEPT !.name_ID = "n1"]), "Transaction",
     {"enteredBy", "category"}, {"User", "TransactionCategory"}>>}

\* C20: getObject called with an empty or absent primary key, for any entity
\* type, returns null and leaves the store and the identifier generator as
\* they were; an entity integrated from a record whose foreign key is absent
\* or empty has a null relation, and no entity of the related type is created.
C20_AbsentKeyCreatesNothing ==
  /\ \A type \in Types, primaryKey \in {Undefined, Null, ""},
        primaryKeyField \in {"id", "sequenceKey"} :
       getObject(Call, type, primaryKey, primaryKeyField) = [c |-> Call, obj |-> Null]
  /\ \A a \in AbsentKeyRecords :
       LET c == integrateRecord(Call, a[1])
           id == a[1].data.ID
       IN  /\ c.error = NoError
           /\ Present(c.objects, a[2], id)
           /\ \A relation \in a[3] : TheEntity(c.objects, a[2], id)[relation] = Null
           /\ \A related \in a[4] : c.objects[related] = database[related]

\* an Item record with no category has been integrated over the Item a record
\* with a category had made: the relation is null and the only ItemCategory
\* is the one the first record named
C20_Witness ==
  /\ previousRecord = Create("item", ItemA)
  /\ lastRecord = Update("item", ItemB)
  /\ error = NoError
  /\ Present(database, "Item", "i1")
  /\ TheEntity(database, "Item", "i1").category = Null
  /\ TheEntity(database, "Item", "i1").department = Null
  /\ Len(database["ItemCategory"]) = 1
  /\ database["ItemCategory"][1].id = "k1"

\* the fields sanityCheckIncomingRecord asks of each record type, ID aside
RequiredFields ==
  [item |-> {"code", "item_name", "default_pack_size"},
   item_category |-> {"Description"},
   item_department |-> {"department"},
   item_line |-> {"item_ID", "pack_size", "quantity", "batch", "expiry_date", "cost_price",
                  "sell_price"},
   item_store_join |-> {"item_ID", "store_ID"},
   list_master |-> {"description"},
   list_master_line |-> {"item_ID"},
   list_master_name_join |-> {"name_ID", "list_master_ID"},
   name |-> {"name", "code", "type", "customer", "supplier", "manufacturer"},
   name_store_join |-> {"name_ID", "store_ID"},
   number |-> {"name", "value"},
   number_reuse |-> {"name", "number_to_use"},
   requisition |-> {"status", "date_entered", "type", "daysToSupply", "serial_number"},
   requisition_line |-> {"requisition_ID", "item_ID", "stock_on_hand", "Cust_stock_order"},
   Stock_take |-> {"Description", "stock_take_created_date", "status", "serial_number"},
   Stock_take_lines |-> {"stock_take_ID", "item_line_ID", "snapshot_qty", "snapshot_packsize",
                         "expiry", "Batch", "cost_price", "sell_price"},
   transact |-> {"invoice_num", "name_ID", "entry_date", "type", "status"},
   transaction_category |-> {"category", "code", "type"},
   trans_line |-> {"item_ID", "item_name", "item_line_ID", "batch", "expiry_date",
                   "pack_size", "quantity", "transaction_ID", "cost_price", "sell_price"}]

\* per record type, a record with the fields the Sanity Checker asks and no other
MinimalRecords ==
  {Create(t, [f \in RequiredFields[t] \cup {"ID"} |-> Sufficient[t][f]]) :
     t \in DOMAIN RequiredFields}

\* the Requisition a RequisitionItem record names is stored (getObject has no
\* template for an absent one)
RequisitionStored(r) ==
  InternalType(r) = "RequisitionItem" =>
    Present(database, "Requisition", r.data.requisition_ID)

\* C21: a create/update record of a supported type that the Sanity Checker
\* accepts and that omits every field the checker does not ask integrates
\* without raising an error.
C21_OptionalFieldsOmitted ==
  \A r \in MinimalRecords :
    (sanityCheckIncomingRecord(InternalType(r), r.data) /\ RequisitionStored(r)) =>
      integrateRecord(Call, r).error = NoError

\* C22: at most one call of synchronizer.synchronize() is in flight at any
\* time, and a tick of the scheduler that finds isSyncing set starts no call
\* and changes no state of the app.
C22_SyncRunsSerialized ==
  /\ [](syncsInFlight <= 1)
  /\ [][(ticks' = ticks + 1 /\ isSyncing)
          => UNCHANGED <<isSyncing, syncError, syncsInFlight, syncsStarted>>]_vars

\* a tick has found a sync run in progress and started none; the run then
\* settled and a later tick started the second run
C22_Witness ==
  /\ ticks = 3
  /\ syncsStarted = 2
  /\ syncsInFlight = 1
  /\ isSyncing

\* both writers are in or past calls of getObject on one identifier of one
\* type, and the lookup of each found nothing
BothSawAbsent ==
  /\ \A w \in Workers : resolving[w].pc # "idle" /\ resolving[w].sawAbsent
  /\ resolving[1].type = resolving[2].type
  /\ resolving[1].primaryKey = resolving[2].primaryKey

\* two entities of a type with one identifier
DuplicateIdentifier ==
  \E type \in Types : \E i, j \in 1..Len(database[type]) :
    i # j /\ database[type][i].id = database[type][j].id

\* C23: when the calls of getObject are serialized, no state has both writers
\* past a lookup that found the same identifier absent, no identifier is
\* stored twice and no create fails; when the calls interleave and both
\* writers created after each found the identifier absent, the identifier is
\* stored twice or a create failed.
C23_GetOrCreateRace ==
  /\ serialized =>
       /\ ~BothSawAbsent
       /\ ~DuplicateIdentifier
       /\ \A w \in Workers : ~resolving[w].failed
  /\ (BothSawAbsent /\ \A w \in Workers : resolving[w].pc = "returned") =>
       (DuplicateIdentifier \/ \E w \in Workers : resolving[w].failed)

\* the calls interleaved: both writers found the identifier absent, both
\* created, and the table holds it twice
C23_Witness ==
  /\ ~serialized
  /\ BothSawAbsent
  /\ \A w \in Workers : resolving[w].pc = "returned"
  /\ DuplicateIdentifier

MaxLen == 4

\* the letters of "true" in both cases, and a letter that is not one of them
BooleanAlphabet == <<"t", "T", "r", "R", "u", "U", "e", "E", "x">>

RECURSIVE BooleanStrings(_)
\* the strings of at most n letters over the alphabet
BooleanStrings(n) ==
  IF n = 0 THEN {""}
  ELSE LET shorter == BooleanStrings(n - 1)
       IN  shorter \cup {s \o BooleanAlphabet[i] : s \in shorter, i \in DOMAIN BooleanAlphabet}

\* a letter in lower case
LowerCase(ch) ==
  CASE ch = "T" -> "t" [] ch = "R" -> "r" [] ch = "U" -> "u" [] ch = "E" -> "e" [] OTHER -> ch

\* s is "true" whatever the case of its letters
EqualsTrueIgnoringCase(s) ==
  /\ s # Undefined
  /\ Len(s) = 4
  /\ \A i \in 1..4 : LowerCase(SubSeq(s, i, i)) = SubSeq("true", i, i)

\* C24: parseBoolean(s) is truthy exactly when s is "true" in any case of its
\* letters, for every string of at most MaxLen letters and for an absent
\* string; the flags of a Name just integrated are those of its record.
C24_ParseBooleanIgnoresCase ==
  /\ \A s \in BooleanStrings(MaxLen) \cup {Undefined} :
       parseBoolean(s) <=> EqualsTrueIgnoringCase(s)
  /\ (IsCreateOrUpdate(lastRecord) /\ InternalType(lastRecord) = "Name"
      /\ sanityCheckIncomingRecord("Name", lastRecord.data)) =>
       LET name == TheEntity(database, "Name", lastRecord.data.ID)
       IN  /\ name.isCustomer <=> EqualsTrueIgnoringCase(lastRecord.data.customer)
           /\ name.isSupplier <=> EqualsTrueIgnoringCase(lastRecord.data.supplier)
           /\ name.isManufacturer <=> EqualsTrueIgnoringCase(lastRecord.data.manufacturer)


\* the store-join records of a batch the Sanity Checker accepts:
\* <<record, joined type, field naming the joined entity>>
StoreJoinRecords(b) ==
  {<<r, "Item", "item_ID">> :
     r \in {s \in Batches[b] : IsCreateOrUpdate(s) /\ InternalType(s) = "ItemStoreJoin"
                                /\ sanityCheckIncomingRecord("ItemStoreJoin", s.data)}}
  \cup
  {<<r, "Name", "name_ID">> :
     r \in {s \in Batches[b] : IsCreateOrUpdate(s) /\ InternalType(s) = "NameStoreJoin"
                                /\ sanityCheckIncomingRecord("NameStoreJoin", s.data)}}

\* the entities of a table other than the one with the given id
Others(objects, type, id) ==
  {objects[type][i] : i \in {j \in 1..Len(objects[type]) : objects[type][j].id # id}}

\* C25: integrating an ItemStoreJoin (NameStoreJoin) record stores
\* joinsThisStore = (store_ID is the THIS_STORE_ID setting); when it is true
\* the joined Item (Name) is in the store afterwards, created as a placeholder
\* if it was absent, with isVisible the negation of the record's inactive
\* flag, and no other Item (Name) changes; when it is false the Items (Names)
\* of the store are left exactly as they were.
C25_StoreJoinVisibility ==
  \A j \in StoreJoinRecords(batch) :
    LET record == j[1].data
        c == integrateRecord(Call, j[1])
        joined == Get(record, j[3])
        joinsThisStore == record.store_ID = THIS_STORE_ID
    IN  /\ c.error = NoError
        /\ Present(c.objects, InternalType(j[1]), record.ID)
        /\ TheEntity(c.objects, InternalType(j[1]), record.ID).joinsThisStore = joinsThisStore
        /\ joinsThisStore =>
             /\ Present(c.objects, j[2], joined)
             /\ Cardinality(Matching(c.objects, j[2], "id", joined)) = 1
             /\ TheEntity(c.objects, j[2], joined).isVisible
                  = ~parseBoolean(Get(record, "inactive"))
             /\ ~Present(database, j[2], joined) =>
                  LET placeholder == generatePlaceholder(Call, j[2], joined).placeholder
                  IN  \A field \in DOMAIN placeholder :
                        TheEntity(c.objects, j[2], joined)[field] = placeholder[field]
             /\ Others(c.objects, j[2], joined) = Others(database, j[2], joined)
        /\ ~joinsThisStore => c.objects[j[2]] = database[j[2]]

\* a join with this store made the Item i1 as a placeholder and hid it, and
\* the record that moved the join to another store left the Item as it was
C25_Witness ==
  /\ previousRecord = Create("item_store_join",
       [ID |-> "j1", item_ID |-> "i1", store_ID |-> THIS_STORE_ID, inactive |-> "true"])
  /\ lastRecord = Update("item_store_join",
       [ID |-> "j1", item_ID |-> "i1", store_ID |-> OTHER_STORE_ID])
  /\ error = NoError
  /\ Present(database, "ItemStoreJoin", "j1")
  /\ ~TheEntity(database, "ItemStoreJoin", "j1").joinsThisStore
  /\ Len(database["Item"]) = 1
  /\ database["Item"][1].id = "i1"
  /\ database["Item"][1].isVisible = FALSE
  /\ database["Item"][1].name = placeholderString


\* the types whose records are dependents of some parent
DependentTypes == {col[3] : col \in DependentCollections}

\* the own create/update records, in a batch, of parents of the given type
\* that are in the store
ParentRecords(b, type) ==
  {r \in SufficientRecords(b) :
     InternalType(r) = type /\ Present(database, type, r.data.ID)}

\* C26: integrating the own create/update record of an Item, Stocktake,
\* Requisition, Transaction, NumberSequence or MasterList that is in the
\* store leaves the collection of dependents of that parent, and every
\* dependent with its relation to it, as they were; in every step that
\* changes the collection of a parent, the record integrated is a record of
\* a dependent type.
C26_ParentLeavesDependents ==
  /\ [](\A col \in DependentCollections :
          \A r \in ParentRecords(batch, col[1]) :
            LET c == integrateRecord(Call, r)
                id == r.data.ID
            IN  /\ Present(c.objects, col[1], id)
                /\ Members(TheEntity(c.objects, col[1], id), col[2])
                     = Members(TheEntity(database, col[1], id), col[2])
                /\ PointingTo(c.objects, col[3], col[4], id)
                     = PointingTo(database, col[3], col[4], id)
                /\ c.objects[col[3]] = database[col[3]])
  /\ [][\A col \in DependentCollections :
          (\E i \in 1..Len(database[col[1]]), j \in 1..Len(database'[col[1]]) :
             /\ database[col[1]][i].id = database'[col[1]][j].id
             /\ Members(database[col[1]][i], col[2]) # Members(database'[col[1]][j], col[2]))
          => InternalType(lastRecord') \in DependentTypes]_vars

\* the Item i1 holds the batch b1 and its own record has just been integrated
\* over it: b1 is still in its collection and still names it
C26_Witness ==
  /\ previousRecord = Create("item_line", ItemBatchA)
  /\ lastRecord = Update("item", ItemB)
  /\ error = NoError
  /\ Present(database, "Item", "i1")
  /\ TheEntity(database, "Item", "i1").name = ItemB.item_name
  /\ Members(TheEntity(database, "Item", "i1"), "batches") = {"b1"}
  /\ PointingTo(database, "ItemBatch", "item", "i1") = {"b1"}


\* the records of the four types with pack size P, a cost (buy) price of 4
\* and a sell price of 6: <<record, internal type, price fields with the
\* price each is derived from>>
PricedRecordsOfAnyBatch(P) ==
  {<<Create("item", [ItemA EXCEPT !.default_pack_size = ToString(P), !.buy_price = "4"]),
     "Item", {<<"defaultPrice", 4>>}>>,
   <<Create("item_line",
            [ItemBatchA EXCEPT !.pack_size = ToString(P), !.cost_price = "4",
                               !.sell_price = "6"]),
     "ItemBatch", {<<"costPrice", 6>>, <<"sellPrice", 6>>}>>,
   <<Update("Stock_take_lines",
            [StocktakeBatchA EXCEPT !.snapshot_packsize = ToString(P), !.cost_price = "4",
                                    !.sell_price = "6"]),
     "StocktakeBatch", {<<"costPrice", 4>>, <<"sellPrice", 6>>}>>,
   <<Create("trans_line",
            [TransactionBatchA EXCEPT !.pack_size = ToString(P), !.cost_price = "4",
                                      !.sell_price = "6"]),
     "TransactionBatch", {<<"costPrice", 4>>, <<"sellPrice", 6>>}>>}

\* those of the record types a batch carries
PricedRecords(b, P) ==
  {p \in PricedRecordsOfAnyBatch(P) :
     \E r \in Batches[b] : Get(r, "RecordType") = p[1].RecordType}

\* C27: integrating an Item, ItemBatch, StocktakeBatch or TransactionBatch
\* record whose pack size parses to 0 raises no error and stores 0 in every
\* price field derived by division; for a pack size P that is not 0 each of
\* those fields is its source price divided by P, the costPrice and the
\* sellPrice of an ItemBatch both being derived from sell_price.
C27_PackSizeDivisionGuard ==
  \A P \in 0..MaxQuantity :
    \A p \in PricedRecords(batch, P) :
      LET c == integrateRecord(Call, p[1])
          id == p[1].data.ID
      IN  /\ c.error = NoError
          /\ Present(c.objects, p[2], id)
          /\ \A f \in p[3] :
               LET price == TheEntity(c.objects, p[2], id)[f[1]]
               IN  IF P = 0 THEN price = Num(0)
                   ELSE price # NaN /\ price # NullNum /\ price[1] * P = f[2] * price[2]

\* an ItemBatch of pack size 2 and sell price 3 has been integrated, then the
\* same identifier with pack size 0: both prices are 0 and nothing was raised
C27_Witness ==
  /\ previousRecord = Create("item_line", ItemBatchA)
  /\ lastRecord = Update("item_line", ItemBatchB)
  /\ ItemBatchB.pack_size = "0"
  /\ error = NoError
  /\ Present(database, "ItemBatch", "b1")
  /\ TheEntity(database, "ItemBatch", "b1").costPrice = Num(0)
  /\ TheEntity(database, "ItemBatch", "b1").sellPrice = Num(0)


\* the arguments of getOrCreateAddress tried: <<line1, line2, line3, line4,
\* zipCode>>, each absent or a string
SuppliedAddresses ==
  (AddressLines \cup {Undefined}) \X {Undefined, ""} \X {Undefined} \X {Undefined}
    \X (ZipCodes \cup {Undefined})

\* the address has the value of every supplied field
Agrees(address, supplied) ==
  \A i \in 1..Len(AddressFields) :
    IsString(supplied[i]) => Get(address, AddressFields[i]) = supplied[i]

\* C28: the Address getOrCreateAddress returns has the value supplied for
\* every supplied field of line1..line4 and zip; when a stored Address agrees
\* with the supplied fields the one returned is a stored one, whatever its
\* other fields hold, and the store is left as it was; when none does, one
\* Address is added, it is the one returned, and its fields are the
\* identifier and exactly the supplied fields.
C28_AddressMatch ==
  \A supplied \in SuppliedAddresses :
    LET result == getOrCreateAddress(Call, supplied[1], supplied[2], supplied[3],
                                     supplied[4], supplied[5])
        stored == database["Address"]
        after == result.c.objects["Address"]
        matches == {i \in 1..Len(stored) : Agrees(stored[i], supplied)}
    IN  /\ result.c.error = NoError
        /\ Present(result.c.objects, "Address", result.obj)
        /\ Agrees(TheEntity(result.c.objects, "Address", result.obj), supplied)
        /\ [result.c.objects EXCEPT !["Address"] = stored] = database
        /\ IF matches # {}
           THEN /\ after = stored
                /\ \E i \in matches : stored[i].id = result.obj
           ELSE /\ Len(after) = Len(stored) + 1
                /\ SubSeq(after, 1, Len(stored)) = stored
                /\ after[Len(after)].id = result.obj
                /\ ~Present(database, "Address", result.obj)
                /\ DOMAIN after[Len(after)]
                     = {"id"} \cup {AddressFields[i] : i \in {j \in 1..Len(AddressFields) :
                                                                IsString(supplied[j])}}

\* a Name record with a line1 and a zip made an Address with exactly those
\* fields; the next record of that Name supplied no address field and got
\* that Address, whose fields did not constrain the match
C28_Witness ==
  /\ previousRecord = Create("name", NameA)
  /\ lastRecord = Update("name", NameBare)
  /\ error = NoError
  /\ Len(database["Address"]) = 1
  /\ DOMAIN database["Address"][1] = {"id", "line1", "zipCode"}
  /\ database["Address"][1].line1 = NameA.bill_address1
  /\ database["Address"][1].zipCode = NameA.bill_postal_zip_code
  /\ TheEntity(database, "Name", "n1").billingAddress = database["Address"][1].id


\* the TransactionBatch records of a batch the Sanity Checker accepts
TransactionBatchRecords(b) ==
  {r \in SufficientRecords(b) : InternalType(r) = "TransactionBatch"}

\* C29: after a TransactionBatch record the Sanity Checker accepts, the
\* ItemBatch named by item_line_ID has the Item named by item_ID as its item,
\* whatever it had before, that ItemBatch is in the batches of that Item, and
\* the TransactionBatch is in the batches of its Transaction and in the
\* transactionBatches of the ItemBatch.
C29_TransactionBatchRepairsItem ==
  \A r \in TransactionBatchRecords(batch) :
    LET c == integrateRecord(Call, r)
        record == r.data
    IN  /\ c.error = NoError
        /\ Present(c.objects, "TransactionBatch", record.ID)
        /\ Present(c.objects, "ItemBatch", record.item_line_ID)
        /\ Present(c.objects, "Item", record.item_ID)
        /\ Present(c.objects, "Transaction", record.transaction_ID)
        /\ Get(TheEntity(c.objects, "ItemBatch", record.item_line_ID), "item") = record.item_ID
        /\ record.item_line_ID
             \in Members(TheEntity(c.objects, "Item", record.item_ID), "batches")
        /\ record.ID
             \in Members(TheEntity(c.objects, "Transaction", record.transaction_ID), "batches")
        /\ record.ID
             \in Members(TheEntity(c.objects, "ItemBatch", record.item_line_ID),
                         "transactionBatches")
        /\ TheEntity(c.objects, "TransactionBatch", record.ID).itemBatch = record.item_line_ID
        /\ TheEntity(c.objects, "TransactionBatch", record.ID).transaction
             = record.transaction_ID

\* the ItemBatch b1 had the Item i1 after a first TransactionBatch record; a
\* second one naming the Item i2 has moved it
C29_Witness ==
  /\ previousRecord = Create("trans_line", TransactionBatchA)
  /\ lastRecord = Update("trans_line", TransactionBatchB)
  /\ TransactionBatchA.item_ID = "i1" /\ TransactionBatchB.item_ID = "i2"
  /\ error = NoError
  /\ Present(database, "ItemBatch", "b1") /\ Present(database, "Item", "i2")
  /\ Present(database, "Transaction", "tr1")
  /\ TheEntity(database, "ItemBatch", "b1").item = "i2"
  /\ "b1" \in Members(TheEntity(database, "Item", "i2"), "batches")
  /\ "tb1" \in Members(TheEntity(database, "Transaction", "tr1"), "batches")
  /\ "tb1" \in Members(TheEntity(database, "ItemBatch", "b1"), "transactionBatches")


\* the records of a batch sent as a create or as an update, with or without
\* data, of supported and unsupported types
CreateOrUpdateRecords(b) ==
  {r \in Batches[b] : TranslateWith(SYNC_TYPES, Get(r, "SyncType")) \in {"create", "update"}}

\* the record sent with the given sync type
SentAs(r, syncType) == [r EXCEPT !.SyncType = syncType]

\* C30: on every store, integrating a record as a create leaves the same
\* store, the same identifier generator and the same error as integrating it
\* as an update: the entity with the record's id is updated when there is
\* one and created when there is none.
C30_CreateIsUpdate ==
  \A r \in CreateOrUpdateRecords(batch) :
    LET created == integrateRecord(Call, SentAs(r, "I"))
        updated == integrateRecord(Call, SentAs(r, "U"))
    IN  /\ created = updated
        /\ (IsCreateOrUpdate(r) /\ sanityCheckIncomingRecord(InternalType(r), r.data)
            /\ created.error = NoError /\ Len(created.objects[InternalType(r)]) > 0)
             => Cardinality(Matching(created.objects, InternalType(r), "id", r.data.ID)) <= 1

\* a join record made the Item i1 as a placeholder, and a record of that Item
\* sent as a create has updated it: one Item, with the fields of the record
C30_Witness ==
  /\ previousRecord = Create("item_store_join",
       [ID |-> "j1", item_ID |-> "i1", store_ID |-> THIS_STORE_ID, inactive |-> "true"])
  /\ lastRecord = Create("item", ItemB)
  /\ lastRecord.SyncType = "I"
  /\ error = NoError
  /\ Len(database["Item"]) = 1
  /\ database["Item"][1].id = "i1"
  /\ database["Item"][1].name = ItemB.item_name
  /\ database["Item"][1].isVisible = FALSE


\* C31: a call of integrateRecord that ends by raising an error leaves the
\* store as it was before the call: nothing written earlier in the call
\* remains.
C31_ErrorsLeaveStoreUntouched ==
  [][(clock' = clock + 1 /\ error' # NoError) => database' = database]_vars


\* a parent type with its dependent type and the field of the dependent's
\* record that names the parent
ParentAndDependent ==
  {<<"Item", "ItemBatch", "item_ID">>, <<"Name", "NameStoreJoin", "name_ID">>,
   <<"Requisition", "RequisitionItem", "requisition_ID">>,
   <<"Stocktake", "StocktakeBatch", "stock_take_ID">>,
   <<"Transaction", "TransactionBatch", "transaction_ID">>}

\* d is a record of a dependent of the parent of the record p
References(d, p) ==
  \E pd \in ParentAndDependent :
    /\ InternalType(p) = pd[1]
    /\ InternalType(d) = pd[2]
    /\ Get(d.data, pd[3]) = p.data.ID
    /\ pd[2] = "NameStoreJoin" => Get(d.data, "store_ID") = THIS_STORE_ID

\* the call after another at the same wall-clock time, so that the dates of
\* the placeholders of the two orders are the same
ThenAtOnce(c, syncRecord) == integrateRecord(Context(c.objects, c.uuid, c.now), syncRecord)

\* the store after the first record then the second
InOrder(first, second) == ThenAtOnce(integrateRecord(Call, first), second).objects

\* C32: for a parent record p and a record d of a dependent that names p,
\* both accepted by the Sanity Checker, integrating p then d and integrating
\* d then p from the same store leave the same store, the dates given to
\* placeholders set aside.
C32_ArrivalOrderIndependent ==
  \A p, d \in SufficientRecords(batch) :
    References(d, p) => InOrder(p, d) = InOrder(d, p)


\* no two Addresses of the store have the same value, or the same absence of
\* a value, in each of line1, line2, line3, line4 and zipCode
NoDuplicateAddress(objects) ==
  \A i, j \in 1..Len(objects["Address"]) :
    (\A f \in {AddressFields[k] : k \in 1..Len(AddressFields)} :
       Get(objects["Address"][i], f) = Get(objects["Address"][j], f)) => i = j

\* C33: in every state reached by integrations from a store with no Address,
\* no two Addresses have identical values, absence included, for all of
\* line1, line2, line3, line4 and zipCode, and a further call of
\* getOrCreateAddress, with any fields supplied, makes no duplicate.
C33_NoDuplicateAddresses ==
  /\ NoDuplicateAddress(database)
  /\ \A supplied \in SuppliedAddresses :
       NoDuplicateAddress(getOrCreateAddress(Call, supplied[1], supplied[2], supplied[3],
                                             supplied[4], supplied[5]).c.objects)

\* two Names with the same line1 and zip, then a third with another zip, have
\* been integrated: two Addresses, which differ in their zip
C33_Witness ==
  /\ batch = "names"
  /\ clock = 3
  /\ previousRecord = Create("name", NameB)
  /\ lastRecord = Create("name", NameC)
  /\ error = NoError
  /\ Present(database, "Name", "n1")
  /\ Len(database["Address"]) = 2
  /\ database["Address"][1].line1 = database["Address"][2].line1
  /\ database["Address"][1].zipCode # database["Address"][2].zipCode


\* C34: a run of synchronize that has set isSyncing sets it back to false
\* once synchronizer.synchronize() has resolved or rejected: isSyncing is set
\* exactly while a call is in flight and every set guard is eventually
\* released; syncError changes only on a step that releases the guard, to the
\* message of the error; and a tick that finds the guard released starts a
\* new sync, whatever syncError holds.
C34_SyncGuardReleased ==
  /\ isSyncing ~> ~isSyncing
  /\ [](isSyncing <=> syncsInFlight > 0)
  /\ [][syncError' # syncError =>
          (isSyncing /\ ~isSyncing' /\ syncError' \in SyncErrors)]_vars
  /\ [][(ticks' = ticks + 1 /\ ~isSyncing) =>
          (isSyncing' /\ syncsStarted' = syncsStarted + 1 /\ syncError' = syncError)]_vars

\* a sync has failed, its message is in syncError, and a later tick has
\* started the second sync
C34_Witness ==
  /\ syncError \in SyncErrors
  /\ isSyncing
  /\ syncsStarted = 2
  /\ syncsInFlight = 1


\* entity types the switch of sanityCheckIncomingRecord has no case for: two
\* types of the store, a type of the server only, and what the translation
\* of an unknown record type gives
UnrecognisedTypes == {"Address", "User", "Store", Undefined, Null}

\* the records last integrated that carry data
DataOfLastRecords ==
  {r.data : r \in {s \in {lastRecord, previousRecord} : "data" \in DOMAIN s}}

\* the record with the given ID, or with none
WithID(record, id) ==
  IF id = Undefined THEN Without(record, "ID") ELSE ("ID" :> id) @@ Without(record, "ID")

\* C35: for every entity type, supported or not, sanityCheckIncomingRecord
\* is false for a record whose ID is absent or empty; it is false for every
\* unrecognised entity type, whatever the record holds; its result is a
\* boolean, never an error, for every record of strings; and a create or
\* update record it rejects is skipped: the store stays as it was and no
\* error is raised.
C35_SanityIdentifierRule ==
  /\ [](\A record \in DataOfLastRecords :
          /\ \A type \in Types \cup UnrecognisedTypes :
               /\ sanityCheckIncomingRecord(type, record) \in BOOLEAN
               /\ \A id \in {Undefined, ""} :
                    sanityCheckIncomingRecord(type, WithID(record, id)) = FALSE
          /\ \A type \in UnrecognisedTypes :
               sanityCheckIncomingRecord(type, WithID(record, "x1")) = FALSE)
  /\ [][(clock' = clock + 1 /\ IsCreateOrUpdate(lastRecord')
         /\ ~sanityCheckIncomingRecord(InternalType(lastRecord'), lastRecord'.data))
          => (database' = database /\ error' = NoError)]_vars

\* a RequisitionItem record with an empty ID has been integrated: nothing was
\* stored and nothing raised
C35_Witness ==
  /\ lastRecord = Create("requisition_line", [ID |-> "", requisition_ID |-> "q1"])
  /\ clock > 0
  /\ error = NoError
  /\ database["RequisitionItem"] = <<>>
  /\ database["Requisition"] = <<>>

====
